---- MODULE Spec2Model ----
(***************************************************************************)
(* Obsidian Cortex: the agent loop (services/Orchestrator.ts), the model   *)
(* router (services/ModelRouter.ts), the tool registry (tools/Tools.ts)    *)
(* and the hybrid index (VectorStore, second half of types.ts).            *)
(*                                                                         *)
(* A text is a sequence of fragments.  A fragment is either one character  *)
(* ("[", "]", "/", "a", ...) or a literal run of characters that holds no  *)
(* "[" and no "/" (for instance "Sources: ").  Concatenation of texts is   *)
(* concatenation of sequences, so String.includes('[[') is "two adjacent   *)
(* "[" fragments".                                                         *)
(***************************************************************************)
EXTENDS Integers, Sequences, FiniteSets, TLC

VARIABLES
  \* ---- Orchestrator.run (one invocation) ----
  pc,             \* position of run: the await it is suspended on
  step,           \* loop counter of the tool loop
  messages,       \* the conversation (ILLMMessage[])
  searchResults,  \* result of vectorStore.search(query, 6)
  contextText,    \* buildContext(searchResults)
  toolDecision,   \* tool calls of the current response still to execute
  lastResult,     \* IToolResult of the last runTool call
  sent,           \* what run has asked of its collaborators so far, and
                  \* the tool calls it was asked for, response by response
                  \* and as the backend sent them
  reply,          \* texts the assistant / deep-research backends returned
  result,         \* value run returned
  raised,         \* "none", or who made run reject: "backend" / "tool"
  \* ---- Orchestrator.applyCitations as a function ----
  cite,
  \* ---- VectorStore ----
  bindings,       \* Map<string, string[]>: path -> chunk ids
  cachedChunks,   \* Map<string, IndexedChunk>: id -> chunk
  db,             \* FallbackIndex.chunks: id -> chunk
  vault,          \* the collection: path -> current content of the document
  persistPath,    \* constructor argument: path of the snapshot, '' when off
  snapshot,       \* content of the snapshot file of the vault
  phase,          \* plugin lifecycle: "unloaded", "restored" or "ready"
  history,        \* the last two operations completed on the index
  saved,          \* the in-memory index persistIndex last wrote out
  loads,          \* number of times the plugin has been loaded
  \* ---- VectorStore.chunkMarkdown, one call, statement by statement ----
  chunker,
  \* ---- VectorStore.search, one call ----
  fusion,
  \* ---- ModelRouter ----
  claudePromptCache,  \* Map<string, ModelRouterResponse>: digest -> response
  geminiCache,        \* Map<string, GeminiCacheEntry>: digest -> entry
  now,                \* Date.now()
  calls,              \* the calls of route made so far, in the order they began
  \* ---- VectorStore.embed ----
  isMobile,  \* app.isMobile
  transformerPipeline,  \* the feature-extraction pipeline has been loaded
  loadingLocalTransformer,  \* a call is loading the pipeline
  embedCalls, \* the calls of embed made so far, in the order they began
  \* ---- VectorStore under handlers that overlap in time ----
  orama,  \* this.orama is set (the engine module was imported)
  loading,  \* this.loading
  handlers,  \* the calls of indexFile, removeFile, indexVault and search, in the order they began
  writeQueue,  \* the writes of the snapshot file the vault has not finished, oldest first
  serial, \* the index the events so far would have left, handled one at a time
  \* ---- the organize_note handler, one call ----
  organizer  \* position and locals of the handler, and the folders of the vault

runVars == <<pc, step, messages, searchResults, contextText, toolDecision,
             lastResult, sent, reply, result, raised>>
citeVars == <<cite>>
storeVars == <<bindings, cachedChunks, db, vault, persistPath, snapshot, phase,
               history, saved, loads>>
chunkVars == <<chunker>>
searchVars == <<fusion>>
routerVars == <<claudePromptCache, geminiCache, now, calls>>
embedVars == <<isMobile, transformerPipeline, loadingLocalTransformer, embedCalls>>
asyncVars == <<orama, loading, handlers, writeQueue, serial>>
organizeVars == <<organizer>>
vars == <<pc, step, messages, searchResults, contextText, toolDecision,
          lastResult, sent, reply, result, raised, cite,
          bindings, cachedChunks, db, vault, persistPath, snapshot, phase,
          history, saved, loads, chunker, fusion,
          claudePromptCache, geminiCache, now, calls,
          isMobile, transformerPipeline, loadingLocalTransformer, embedCalls,
          orama, loading, handlers, writeQueue, serial,
          organizer>>

-----------------------------------------------------------------------------
(* Bounds *)

\* total number of tool calls the tool model may request within one run
MaxTotalCalls == 4
\* number of times the plugin is loaded (Obsidian sessions)
MaxLoads == 2
\* largest chunkTokenTarget, chunkTokenOverlap and maxChunksPerFile given to
\* one call of chunkMarkdown
MaxChunkSize == 3
MaxChunkOverlap == 3
MaxChunkCap == 4
\* largest raw score of a search candidate and largest limit given to search
MaxScore == 2
MaxLimit == 2
\* number of calls of route('assistant'), of route('research'), and number of
\* times the clock is seen to advance
MaxAssistantCalls == 3
MaxResearchCalls == 2
MaxClockTicks == 2
\* number of handlers of the store (vault events, commands, searches) that
\* begin
MaxHandlers == 2
\* number of calls of embed
MaxEmbedCalls == 2
\* longest response text explored for applyCitations
MaxTextLen == 3
\* longest result list explored for applyCitations
MaxResults == 6

(* Program constants *)

maxSteps == 4
MaxCitations == 5
\* geminiContextCacheTtlMs: 30 * 60 * 1000
geminiContextCacheTtlMs == 1800000

-----------------------------------------------------------------------------
(* Texts *)

Min(a, b) == IF a < b THEN a ELSE b

\* String.includes('[[')
IncludesOpenBrackets(text) ==
  \E i \in 1..(Len(text) - 1) : text[i] = "[" /\ text[i + 1] = "["

\* path.split('/').pop(): what follows the last "/"
RECURSIVE LastSegment(_)
LastSegment(path) ==
  IF \A i \in 1..Len(path) : path[i] # "/"
  THEN path
  ELSE LastSegment(Tail(path))

\* `[[${fileName}#^${blockId}]]`
CitationMarker(r) ==
  <<"[", "[">> \o LastSegment(r.filePath) \o <<"#^">> \o r.blockId \o <<"]", "]">>

\* Array.join(sep)
RECURSIVE Join(_, _)
Join(parts, sep) ==
  IF Len(parts) = 0 THEN <<>>
  ELSE IF Len(parts) = 1 THEN parts[1]
  ELSE parts[1] \o sep \o Join(Tail(parts), sep)

\* results.slice(0, n)
Slice(s, n) == SubSeq(s, 1, Min(n, Len(s)))


-----------------------------------------------------------------------------
(* Orchestrator.applyCitations and Orchestrator.buildContext *)

\* the same without the early return on an empty result list
applyCitations_SourcesAlways(text, results) ==
  LET citations == Join([i \in 1..Min(MaxCitations, Len(results)) |->
                           CitationMarker(results[i])], <<" ">>)
  IN IF IncludesOpenBrackets(text) THEN text
     ELSE text \o <<"\n", "\n", "Sources: ">> \o citations

\* the same without the test for an existing marker
applyCitations_NoMarkerCheck(text, results) ==
  IF Len(results) = 0 THEN text
  ELSE text \o <<"\n", "\n", "Sources: ">>
            \o Join([i \in 1..Min(MaxCitations, Len(results)) |->
                       CitationMarker(results[i])], <<" ">>)

\* the same without slice(0, 5)
applyCitations_NoLimit(text, results) ==
  IF Len(results) = 0 THEN text
  ELSE IF IncludesOpenBrackets(text) THEN text
  ELSE text \o <<"\n", "\n", "Sources: ">>
            \o Join([i \in 1..Len(results) |-> CitationMarker(results[i])], <<" ">>)

applyCitations(text, results) ==
  IF Len(results) = 0 THEN text
  ELSE LET citations == Join([i \in 1..Len(Slice(results, MaxCitations)) |->
                                CitationMarker(Slice(results, MaxCitations)[i])],
                             <<" ">>)
       IN IF IncludesOpenBrackets(text) THEN text
          ELSE text \o <<"\n", "\n", "Sources: ">> \o citations

buildContext(results) ==
  Join([i \in 1..Len(results) |->
          CitationMarker(results[i]) \o <<"\n">> \o results[i].content],
       <<"\n", "\n">>)

-----------------------------------------------------------------------------
(* ToolsRegistry: tool arguments, the host application, runTool *)

Undefined == "undefined"

\* The argument object of a tool call.  isNull: the payload was the JSON
\* literal null, so the object is null and reading a property of it throws.
NoArgs ==
  [isNull |-> FALSE, query |-> Undefined, commandId |-> Undefined,
   requiresActiveFile |-> FALSE, filePath |-> Undefined,
   newFolderPath |-> Undefined]

\* JSON.parse of the payloads the tool model is taken to send
ParseJson(payload) ==
  CASE payload = "{}" -> NoArgs
    [] payload = "null" -> [NoArgs EXCEPT !.isNull = TRUE]
    [] payload = "{query:q}" -> [NoArgs EXCEPT !.query = "q"]
    [] payload = "{query: }" -> [NoArgs EXCEPT !.query = " "]
    [] payload = "{commandId:cmd_ok}" -> [NoArgs EXCEPT !.commandId = "cmd_ok"]
    [] payload = "{commandId:cmd_forbidden}" ->
         [NoArgs EXCEPT !.commandId = "cmd_forbidden"]
    [] payload = "{commandId:cmd_unknown}" ->
         [NoArgs EXCEPT !.commandId = "cmd_unknown"]
    [] payload = "{commandId:cmd_ok,requiresActiveFile:true}" ->
         [NoArgs EXCEPT !.commandId = "cmd_ok", !.requiresActiveFile = TRUE]
    [] payload = "{filePath:A.md,newFolderPath:dir}" ->
         [NoArgs EXCEPT !.filePath = "A.md", !.newFolderPath = "dir"]
    [] payload = "{filePath:Z.md}" -> [NoArgs EXCEPT !.filePath = "Z.md"]

JsonPayloads ==
  {"{}", "null", "{query:q}", "{query: }", "{commandId:cmd_ok}",
   "{commandId:cmd_forbidden}", "{commandId:cmd_unknown}",
   "{commandId:cmd_ok,requiresActiveFile:true}",
   "{filePath:A.md,newFolderPath:dir}", "{filePath:Z.md}"}

\* payloads JSON.parse rejects
BadPayloads == {"{oops"}

\* JSON.stringify(call.arguments)
JsonStringify(args) == CHOOSE payload \in JsonPayloads : ParseJson(payload) = args

\* String(value ?? '').trim()
TrimmedString(value) == IF value \in {Undefined, " ", ""} THEN "" ELSE value

ToolNames == {"notes", "execute_command", "organize_note"}

Failure(name, output) ==
  [raised |-> FALSE, name |-> name, success |-> FALSE, output |-> output]
Success(name, output) ==
  [raised |-> FALSE, name |-> name, success |-> TRUE, output |-> output]
\* the handler threw: runTool's promise rejects
Thrown(name) ==
  [raised |-> TRUE, name |-> name, success |-> FALSE, output |-> <<>>]

\* handler of the notes tool
notesHandler(args, env) ==
  IF ~env.hasVectorStore
  THEN Failure("notes", <<"Vector search is unavailable until the index loads.">>)
  ELSE IF args.isNull THEN Thrown("notes")
  ELSE IF TrimmedString(args.query) = ""
  THEN Failure("notes", <<"Provide a query to search notes.">>)
  ELSE IF Len(env.hits) = 0
  THEN Success("notes", <<"No matching notes found.">>)
  ELSE Success("notes",
         Join([i \in 1..Len(env.hits) |->
                 <<"[", "[">> \o env.hits[i].filePath \o <<"#", "^">>
                   \o env.hits[i].blockId \o <<"]", "]", " ">>
                   \o env.hits[i].content],
              <<"\n", "\n">>))

\* the handler without the allowlist test
executeCommandHandler_NoAllowlist(args, env) ==
  IF args.isNull THEN Thrown("execute_command")
  ELSE IF TrimmedString(args.commandId) = ""
  THEN Failure("execute_command", <<"commandId is required.">>)
  ELSE IF TrimmedString(args.commandId) \notin env.commands
  THEN Failure("execute_command",
               <<"Command ", TrimmedString(args.commandId), " not found.">>)
  ELSE IF args.requiresActiveFile /\ ~env.activeView
  THEN Failure("execute_command",
               <<"This command requires an active Markdown editor.">>)
  ELSE IF env.hostThrows
  THEN Failure("execute_command", <<"Command execution failed.">>)
  ELSE Success("execute_command",
               <<"Executed ", TrimmedString(args.commandId), ".">>)

\* handler of the execute_command tool
executeCommandHandler(args, env) ==
  IF args.isNull THEN Thrown("execute_command")
  ELSE IF TrimmedString(args.commandId) = ""
  THEN Failure("execute_command", <<"commandId is required.">>)
  ELSE IF TrimmedString(args.commandId) \notin env.commands
  THEN Failure("execute_command",
               <<"Command ", TrimmedString(args.commandId), " not found.">>)
  ELSE IF env.allowedCommands # {}
          /\ TrimmedString(args.commandId) \notin env.allowedCommands
  THEN Failure("execute_command",
               <<"This command is not allowlisted for automation.">>)
  ELSE IF args.requiresActiveFile /\ ~env.activeView
  THEN Failure("execute_command",
               <<"This command requires an active Markdown editor.">>)
  ELSE IF env.hostThrows
  THEN Failure("execute_command", <<"Command execution failed.">>)
  ELSE Success("execute_command",
               <<"Executed ", TrimmedString(args.commandId), ".">>)

\* handler of the organize_note tool
organizeNoteHandler(args, env) ==
  IF args.isNull THEN Thrown("organize_note")
  ELSE IF TrimmedString(args.filePath) = ""
  THEN Failure("organize_note", <<"filePath is required.">>)
  ELSE IF TrimmedString(args.filePath) \notin env.files
  THEN Failure("organize_note",
               <<"No file found at ", TrimmedString(args.filePath), ".">>)
  ELSE IF env.hostThrows
  THEN Failure("organize_note", <<"Unable to move or rename the note.">>)
  ELSE Success("organize_note", <<"Note updated at ", args.newFolderPath, ".">>)

\* the same without the guard for a name that is not registered:
\* tool is undefined and tool.handler throws
runTool_NoGuard(name, args, env) ==
  CASE name = "notes" -> notesHandler(args, env)
    [] name = "execute_command" -> executeCommandHandler(args, env)
    [] name = "organize_note" -> organizeNoteHandler(args, env)
    [] OTHER -> Thrown(name)

runTool(name, args, env) ==
  IF name \notin ToolNames
  THEN Failure(name, <<"Tool ", name, " is not implemented.">>)
  ELSE CASE name = "notes" -> notesHandler(args, env)
         [] name = "execute_command" -> executeCommandHandler(args, env)
         [] name = "organize_note" -> organizeNoteHandler(args, env)

-----------------------------------------------------------------------------
(* ModelRouter as Orchestrator.run calls it (runToolCall(messages, tools),  *)
(* runAssistant(prompt, context, messages), runDeepResearch(prompt,         *)
(* context, messages)): one operator per backend call.  hasKey is what      *)
(* getApiKey found; backend is what the provider's client did with the      *)
(* request.  None of the three wraps the client call in try/catch.          *)

Response(text, toolCalls) == [raised |-> FALSE, text |-> text, toolCalls |-> toolCalls]
\* the client's promise rejected (network failure, non-success HTTP status)
Rejected == [raised |-> TRUE, text |-> <<>>, toolCalls |-> <<>>]

BackendFailures == {"network_error", "http_error"}

\* the arguments left null when JSON.parse throws
ParseArguments_Null(payload) ==
  IF payload \in BadPayloads THEN [NoArgs EXCEPT !.isNull = TRUE]
  ELSE ParseJson(payload)

\* arguments of one tool call as runToolCall hands them on
ParseArguments(payload) ==
  IF payload \in BadPayloads THEN NoArgs ELSE ParseJson(payload)

runToolCall(hasKey, backend) ==
  IF ~hasKey
  THEN Response(<<"OpenAI API key is missing. Please store it via the secure storage command.">>, <<>>)
  ELSE IF backend.status \in BackendFailures THEN Rejected
  ELSE Response(backend.text,
                [i \in 1..Len(backend.tool_calls) |->
                   [name |-> backend.tool_calls[i].name,
                    arguments |-> ParseArguments(backend.tool_calls[i].arguments),
                    id |-> backend.tool_calls[i].id]])

runAssistant(hasKey, backend) ==
  IF ~hasKey
  THEN Response(<<"Anthropic API key is missing. Please store a key labeled anthropic or claude.">>, <<>>)
  ELSE IF backend.status \in BackendFailures THEN Rejected
  ELSE IF ~backend.hasText
  THEN Response(<<"Claude did not return a response.">>, <<>>)
  ELSE Response(backend.text, <<>>)

runDeepResearch(hasKey, backend) ==
  IF ~hasKey
  THEN Response(<<"Gemini API key is missing. Please store a key labeled gemini or google.">>, <<>>)
  ELSE IF backend.status \in BackendFailures THEN Rejected
  ELSE IF ~backend.hasText
  THEN Response(<<"Gemini did not return a response.">>, <<>>)
  ELSE Response(backend.text, <<>>)

-----------------------------------------------------------------------------
(* Inputs of one run *)

Chunk1 == [filePath |-> <<"d", "/", "n">>, blockId |-> <<"b1">>, content |-> <<"x">>]
Chunk2 == [filePath |-> <<"m">>, blockId |-> <<"b2">>, content |-> <<"y">>]

\* what vectorStore.search may return to run
RunResultLists == {<<>>, <<Chunk1>>}

Query == <<"q">>

\* the tool calls the tool model may put in a response
ToolCallMenu ==
  { [id |-> "c1", name |-> "bogus", arguments |-> "{}"],
    [id |-> "c2", name |-> "notes", arguments |-> "{query:q}"],
    [id |-> "c1", name |-> "execute_command", arguments |-> "{commandId:cmd_forbidden}"],
    [id |-> "c2", name |-> "organize_note", arguments |-> "{filePath:Z.md}"],
    [id |-> "c2", name |-> "notes", arguments |-> "null"],
    [id |-> "c1", name |-> "notes", arguments |-> "{oops"] }

\* responses of the tool backend that ask for at most n tool calls; the
\* calls of one response have different identifiers
ToolBackendReplies(n) ==
  { [status |-> "ok", text |-> <<>>, tool_calls |-> <<>>] }
  \cup { [status |-> f, text |-> <<>>, tool_calls |-> <<>>] : f \in BackendFailures }
  \cup (IF n >= 1
        THEN { [status |-> "ok", text |-> <<>>, tool_calls |-> <<c>>] : c \in ToolCallMenu }
        ELSE {})
  \cup (IF n >= 2
        THEN { [status |-> "ok", text |-> <<>>, tool_calls |-> p] :
                 p \in {q \in ToolCallMenu \X ToolCallMenu : q[1].id # q[2].id} }
        ELSE {})

\* responses of the assistant and deep-research backends
TextBackendReplies ==
  { [status |-> "ok", hasText |-> TRUE, text |-> t] :
      t \in {<<>>, <<"a">>, <<"[", "[", "a">>} }
  \cup { [status |-> "ok", hasText |-> FALSE, text |-> <<>>] }
  \cup { [status |-> f, hasText |-> FALSE, text |-> <<>>] : f \in BackendFailures }

\* the host application the tools act on during a run
RunEnv(hostThrows, hits) ==
  [hasVectorStore |-> TRUE, hits |-> hits,
   commands |-> {"cmd_ok", "cmd_forbidden"}, allowedCommands |-> {"cmd_ok"},
   activeView |-> TRUE, files |-> {"A.md"}, hostThrows |-> hostThrows]

-----------------------------------------------------------------------------
(* Orchestrator.run *)

NoResult == [raised |-> FALSE, name |-> "", success |-> FALSE, output |-> <<>>]

NothingSent ==
  [searches |-> 0, toolRequests |-> 0, calls |-> 0, toolsExecuted |-> 0,
   toolSearches |-> 0, rounds |-> <<>>, received |-> <<>>,
   assistantRequests |-> 0, deepRequests |-> 0,
   assistantContext |-> <<"unset">>, deepContext |-> <<"unset">>]

NoReply == [assistant |-> <<>>, deep |-> <<>>]

Message(role, name, content, id) ==
  [role |-> role, name |-> name, content |-> content, tool_call_id |-> id]

SystemMessage ==
  Message("system", "", <<"You are Obsidian Cortex. Use ReAct ...">>, "")

UserMessage(context) ==
  Message("user", "",
          Query \o <<"\n", "\n", "Context:", "\n">>
                \o (IF context = <<>> THEN <<"No matching notes found.">> ELSE context),
          "")

ContinueMessage ==
  Message("user", "",
          <<"Continue and incorporate the new observations. Include citations if relevant.">>,
          "")

\* the tool message placed ahead of the assistant message that carries the call
RoundMessages_ToolFirst(call, res) ==
  << Message("tool", call.name, res.output, call.id),
     Message("assistant", "",
             <<"Action ", call.name, ": ", JsonStringify(call.arguments)>>, call.id) >>

\* the two messages a completed tool call appends
RoundMessages(call, res) ==
  << Message("assistant", "",
             <<"Action ", call.name, ": ", JsonStringify(call.arguments)>>, call.id),
     Message("tool", call.name, res.output, call.id) >>

\* the conversation cut back to its two opening messages before the pushes
PushRound_Trimmed(msgs, call, res, last) ==
  SubSeq(msgs, 1, 2) \o RoundMessages(call, res)
    \o (IF last THEN <<ContinueMessage>> ELSE <<>>)

\* messages.push(...) of one completed call, and after the last call of the
\* response the push of the continue message
PushRound(msgs, call, res, last) ==
  msgs \o RoundMessages(call, res)
    \o (IF last THEN <<ContinueMessage>> ELSE <<>>)

\* the loop condition without the step ceiling
LoopCondition_NoCeiling(s) == TRUE

\* for (...; step < this.maxSteps; ...)
LoopCondition(s) == s < maxSteps

\* the retriever queried again before every round after the first
LoopEntry_Retrieve(s) ==
  IF ~LoopCondition(s) THEN "Responding"
  ELSE IF s > 0 THEN "Retrieving" ELSE "ToolRound"

\* where run goes when the loop is (re-)entered with counter s
LoopEntry(s) == IF LoopCondition(s) THEN "ToolRound" ELSE "Responding"

\* continue where the code has break
AfterToolDecision_Continue(toolCalls, s) ==
  IF Len(toolCalls) > 0 THEN "ExecTools" ELSE LoopEntry(s + 1)

\* if (toolDecision.toolCalls?.length) { ... continue; } break;
AfterToolDecision(toolCalls, s) ==
  IF Len(toolCalls) > 0 THEN "ExecTools" ELSE "Responding"

\* the deep-research fallback taken whatever the assistant returned
AfterAssistant_AlwaysFallback(text) == "DeepResearch"

\* if (assistantResponse.text) return ...; otherwise fall through
AfterAssistant(text) == IF text # <<>> THEN "Done" ELSE "DeepResearch"

\* the identifiers of the calls of a response, in its order, as one more
\* entry of the rounds run has been asked to execute; none for no calls
RoundOf(toolCalls) ==
  IF Len(toolCalls) = 0 THEN <<>>
  ELSE << [i \in 1..Len(toolCalls) |-> toolCalls[i].id] >>

InitRun ==
  /\ pc = "Retrieving"
  /\ step = 0
  /\ messages = <<>>
  /\ searchResults = <<>>
  /\ contextText = <<>>
  /\ toolDecision = <<>>
  /\ lastResult = NoResult
  /\ sent = NothingSent
  /\ reply = NoReply
  /\ result = <<>>
  /\ raised = "none"

\* searchResults = await this.vectorStore.search(query, 6); build the messages
Retrieve ==
  /\ pc = "Retrieving"
  /\ \E rs \in RunResultLists :
       /\ searchResults' = rs
       /\ contextText' = buildContext(rs)
       /\ messages' = <<SystemMessage, UserMessage(buildContext(rs))>>
  /\ sent' = [sent EXCEPT !.searches = @ + 1]
  /\ step' = 0
  /\ pc' = LoopEntry(0)
  /\ UNCHANGED <<toolDecision, lastResult, reply, result, raised>>

\* toolDecision = await this.router.runToolCall(messages, schemas)
ToolRound ==
  /\ pc = "ToolRound"
  /\ \E hasKey \in BOOLEAN, backend \in ToolBackendReplies(MaxTotalCalls - sent.calls) :
       LET decision == runToolCall(hasKey, backend) IN
         IF decision.raised
         THEN /\ pc' = "Done"
              /\ raised' = "backend"
              /\ sent' = [sent EXCEPT !.toolRequests = @ + 1]
              /\ UNCHANGED toolDecision
         ELSE /\ pc' = AfterToolDecision(decision.toolCalls, step)
              /\ raised' = raised
              /\ toolDecision' = decision.toolCalls
              /\ sent' = [sent EXCEPT !.toolRequests = @ + 1,
                                      !.calls = @ + Len(decision.toolCalls),
                                      !.rounds = @ \o RoundOf(decision.toolCalls),
                                      !.received = @ \o (IF hasKey THEN backend.tool_calls ELSE <<>>)]
  /\ UNCHANGED <<step, messages, searchResults, contextText, lastResult, reply, result>>

\* the notes handler gets as far as this.vectorStore.search(query, topK)
NotesSearches(call) ==
  /\ call.name = "notes"
  /\ ~call.arguments.isNull
  /\ TrimmedString(call.arguments.query) # ""

\* what that search may return: the index may have changed since run queried
\* it (tools rename notes, vault events arrive while run is suspended)
ToolHits(call) == IF NotesSearches(call) THEN RunResultLists ELSE {<<>>}

\* one iteration of for (const call of toolDecision.toolCalls), and after the
\* last one the push of the continue message and the next loop test
ExecTool ==
  /\ pc = "ExecTools"
  /\ Len(toolDecision) > 0
  /\ \E hostThrows \in BOOLEAN, hits \in ToolHits(Head(toolDecision)) :
       LET call == Head(toolDecision)
           res == runTool(call.name, call.arguments, RunEnv(hostThrows, hits))
           last == Len(toolDecision) = 1
       IN /\ lastResult' = res
          /\ sent' = [sent EXCEPT !.toolsExecuted = @ + 1,
                                  !.toolSearches = @ + (IF NotesSearches(call) THEN 1 ELSE 0)]
          /\ IF res.raised
             THEN /\ pc' = "Done"
                  /\ raised' = "tool"
                  /\ UNCHANGED <<step, messages, toolDecision>>
             ELSE /\ raised' = raised
                  /\ toolDecision' = Tail(toolDecision)
                  /\ messages' = PushRound(messages, call, res, last)
                  /\ step' = IF last THEN step + 1 ELSE step
                  /\ pc' = IF last THEN LoopEntry(step + 1) ELSE "ExecTools"
  /\ UNCHANGED <<searchResults, contextText, reply, result>>

\* assistantResponse = await this.router.runAssistant(query, contextText, messages)
Respond ==
  /\ pc = "Responding"
  /\ \E hasKey \in BOOLEAN, backend \in TextBackendReplies :
       LET response == runAssistant(hasKey, backend) IN
         /\ sent' = [sent EXCEPT !.assistantRequests = @ + 1,
                                 !.assistantContext = contextText]
         /\ IF response.raised
            THEN /\ pc' = "Done"
                 /\ raised' = "backend"
                 /\ UNCHANGED <<reply, result>>
            ELSE /\ raised' = raised
                 /\ reply' = [reply EXCEPT !.assistant = response.text]
                 /\ pc' = AfterAssistant(response.text)
                 /\ result' = IF AfterAssistant(response.text) = "Done"
                              THEN applyCitations(response.text, searchResults)
                              ELSE result
  /\ UNCHANGED <<step, messages, searchResults, contextText, toolDecision, lastResult>>

\* deepResearch = await this.router.runDeepResearch(query, contextText, messages)
DeepResearch ==
  /\ pc = "DeepResearch"
  /\ \E hasKey \in BOOLEAN, backend \in TextBackendReplies :
       LET response == runDeepResearch(hasKey, backend) IN
         /\ sent' = [sent EXCEPT !.deepRequests = @ + 1,
                                 !.deepContext = contextText]
         /\ pc' = "Done"
         /\ IF response.raised
            THEN /\ raised' = "backend"
                 /\ UNCHANGED <<reply, result>>
            ELSE /\ raised' = raised
                 /\ reply' = [reply EXCEPT !.deep = response.text]
                 /\ result' = applyCitations(response.text, searchResults)
  /\ UNCHANGED <<step, messages, searchResults, contextText, toolDecision, lastResult>>

-----------------------------------------------------------------------------
(* applyCitations explored as a function: a text and a result list are     *)
(* drawn, the function is applied, then applied again to its own output.   *)

SeqsUpTo(S, n) == UNION { [1..k -> S] : k \in 0..n }

CiteTexts == SeqsUpTo({"a", "["}, MaxTextLen)
CiteResultLists == SeqsUpTo({Chunk1, Chunk2}, MaxResults)

CiteIdle == [phase |-> "idle", text |-> <<>>, results |-> <<>>, once |-> <<>>, twice |-> <<>>]

InitCite ==
  \E t \in CiteTexts, rs \in CiteResultLists :
    cite = [phase |-> "input", text |-> t, results |-> rs, once |-> <<>>, twice |-> <<>>]

ApplyOnce ==
  /\ cite.phase = "input"
  /\ cite' = [cite EXCEPT !.phase = "once",
                          !.once = applyCitations(cite.text, cite.results)]

ApplyAgain ==
  /\ cite.phase = "once"
  /\ cite' = [cite EXCEPT !.phase = "twice",
                          !.twice = applyCitations(cite.once, cite.results)]

-----------------------------------------------------------------------------
(* VectorStore: chunking *)

\* RagOptions chosen for the index under study
ChunkTokenTarget == 2
ChunkTokenOverlap == 1
MaxChunksPerFile == 3

\* A document is a sequence of lines; a line is a heading line (text: the
\* words after the # marks) or a plain line (text: its words).  The word "!"
\* stands for a word made of punctuation only.
HeadingLine(words) == [heading |-> TRUE, text |-> words]
PlainLine(words) == [heading |-> FALSE, text |-> words]

Document(name) ==
  CASE name = "empty" -> <<>>
    [] name = "plain" -> << PlainLine(<<"w1", "w2", "w1">>) >>
    [] name = "intro" -> << HeadingLine(<<"Intro">>), PlainLine(<<"w2">>) >>
    [] name = "two" -> << HeadingLine(<<"Intro">>), PlainLine(<<"w1", "w2">>),
                          HeadingLine(<<"Details">>), PlainLine(<<"!", "w2">>) >>

DocumentNames == {"empty", "plain", "intro", "two"}
\* the contents documents of the vault take
VaultDocuments == {"empty", "plain", "intro"}

Max(a, b) == IF a > b THEN a ELSE b

\* all words of a sequence of lines, in order
RECURSIVE Words(_)
Words(lines) ==
  IF Len(lines) = 0 THEN <<>> ELSE Head(lines).text \o Words(Tail(lines))

\* tokenize: lower-case, punctuation to blanks, split on blanks, drop empties
RECURSIVE tokenize(_)
tokenize(words) ==
  IF Len(words) = 0 THEN <<>>
  ELSE IF Head(words) = "!" THEN tokenize(Tail(words))
  ELSE <<Head(words)>> \o tokenize(Tail(words))

\* pushSection(): the buffered lines become a section unless their text is blank
PushSection(sections, heading, buffer) ==
  IF Len(Words(buffer)) > 0
  THEN Append(sections, [heading |-> heading, body |-> Words(buffer)])
  ELSE sections

RECURSIVE SplitLines(_, _, _, _)
SplitLines(lines, sections, heading, buffer) ==
  IF Len(lines) = 0 THEN PushSection(sections, heading, buffer)
  ELSE IF Head(lines).heading
  THEN SplitLines(Tail(lines), PushSection(sections, heading, buffer),
                  IF Len(Head(lines).text) > 0 THEN Head(lines).text ELSE heading,
                  <<>>)
  ELSE SplitLines(Tail(lines), sections, heading, Append(buffer, Head(lines)))

splitByHeadings(content) ==
  LET sections == SplitLines(content, <<>>, <<"Document">>, <<>>)
  IN IF Len(sections) > 0 THEN sections
     ELSE << [heading |-> <<"Document">>, body |-> Words(content)] >>

\* UTF-16 code units of the path names, heading words and separators in use
CharCodes(str) ==
  CASE str = "Aa.md" -> <<65, 97, 46, 109, 100>>
    [] str = "BB.md" -> <<66, 66, 46, 109, 100>>
    [] str = "Document" -> <<68, 111, 99, 117, 109, 101, 110, 116>>
    [] str = "Intro" -> <<73, 110, 116, 114, 111>>
    [] str = "Details" -> <<68, 101, 116, 97, 105, 108, 115>>
    [] str = "-" -> <<45>>
    [] str = " " -> <<32>>

\* code units of the words of a heading, separated by blanks
RECURSIVE HeadingCodes(_)
HeadingCodes(words) ==
  IF Len(words) = 0 THEN <<>>
  ELSE IF Len(words) = 1 THEN CharCodes(Head(words))
  ELSE CharCodes(Head(words)) \o CharCodes(" ") \o HeadingCodes(Tail(words))

\* code units of the decimal text of a number
RECURSIVE DigitCodes(_)
DigitCodes(n) ==
  IF n < 10 THEN <<48 + n>> ELSE DigitCodes(n \div 10) \o <<48 + (n % 10)>>

\* A 32-bit integer is kept as two 16-bit halves: the bit pattern is
\* hi * 65536 + lo, negative when hi >= 32768.
\* hash = (hash << 5) - hash + charCode; hash |= 0
\* (the running hash is bound as a value h: it is read once per character)
HashStep(hash, charCode) ==
  LET Step(h) ==
        LET lo == h.lo * 31 + charCode
            hi == h.hi * 31 + (lo \div 65536)
        IN [hi |-> hi % 65536, lo |-> lo % 65536]
  IN CHOOSE next \in { Step(h) : h \in {hash} } : TRUE

RECURSIVE HashLoop(_, _)
HashLoop(hash, codes) ==
  IF Len(codes) = 0 THEN hash
  ELSE HashLoop(HashStep(hash, Head(codes)), Tail(codes))

\* Math.abs of a 32-bit integer
Abs32(hash) ==
  IF hash.hi < 32768 THEN hash
  ELSE [hi |-> 65535 - hash.hi + (IF hash.lo = 0 THEN 1 ELSE 0),
        lo |-> (65536 - hash.lo) % 65536]

HexDigit(d) ==
  <<"0", "1", "2", "3", "4", "5", "6", "7", "8", "9", "a", "b", "c", "d", "e", "f">>[d + 1]

RECURSIVE Hex(_)
Hex(n) == IF n < 16 THEN <<HexDigit(n)>> ELSE Hex(n \div 16) \o <<HexDigit(n % 16)>>

\* toString(16) of a non-negative integer kept as two halves
ToString16(n) ==
  IF n.hi = 0 THEN Hex(n.lo)
  ELSE Hex(n.hi) \o <<HexDigit(n.lo \div 4096), HexDigit((n.lo \div 256) % 16),
                      HexDigit((n.lo \div 16) % 16), HexDigit(n.lo % 16)>>

\* hashString(input), input given by its code units: the hexadecimal digits
hashString(codes) == ToString16(Abs32(HashLoop([hi |-> 0, lo |-> 0], codes)))

\* `block-${hashString(`${filePath}-${header}-${index}`).slice(0, 8)}`
createBlockId(filePath, header, index) ==
  LET base == CharCodes(filePath) \o CharCodes("-") \o HeadingCodes(header)
                \o CharCodes("-") \o DigitCodes(index)
      digest == hashString(base)
  IN <<"block-">> \o SubSeq(digest, 1, Min(8, Len(digest)))

\* the chunk pushed by one iteration of the while loop
Window(filePath, heading, tokens, cursor, chunkSize, globalIndex) ==
  LET blockId == createBlockId(filePath, heading, globalIndex)
      text == SubSeq(tokens, cursor + 1, Min(cursor + chunkSize, Len(tokens)))
  IN [id |-> <<filePath, blockId>>, content |-> text,
      filePath |-> filePath, blockId |-> blockId]

Stride_NoFloor(chunkSize, chunkOverlap) == chunkSize - chunkOverlap

\* cursor += Math.max(1, chunkSize - chunkOverlap)
Stride(chunkSize, chunkOverlap) == Max(1, chunkSize - chunkOverlap)

\* the while loop over one section's tokens; chunks: the file's chunks so far
RECURSIVE Windows(_, _, _, _, _)
Windows(filePath, heading, tokens, cursor, chunks) ==
  IF cursor < Len(tokens) /\ Len(chunks) < MaxChunksPerFile
  THEN Windows(filePath, heading, tokens,
               cursor + Stride(ChunkTokenTarget, ChunkTokenOverlap),
               Append(chunks, Window(filePath, heading, tokens, cursor,
                                     ChunkTokenTarget, Len(chunks))))
  ELSE chunks

RECURSIVE ChunkSections(_, _, _)
ChunkSections(filePath, sections, chunks) ==
  IF Len(sections) = 0 THEN chunks
  ELSE ChunkSections(filePath, Tail(sections),
                     Windows(filePath, Head(sections).heading,
                             tokenize(Head(sections).body), 0, chunks))

chunkMarkdown(content, filePath) ==
  ChunkSections(filePath, splitByHeadings(content), <<>>)

-----------------------------------------------------------------------------
(* VectorStore.chunkMarkdown, statement by statement, for any RagOptions *)

ChunkerIdle == [pc |-> "idle"]

ChunkOptions ==
  [chunkSize : 0..MaxChunkSize, chunkOverlap : 0..MaxChunkOverlap,
   maxChunks : 0..MaxChunkCap]

\* entry of chunkMarkdown(content, filePath), sections computed
ChunkInit ==
  \E options \in ChunkOptions, name \in DocumentNames :
    chunker = [pc |-> "sections", options |-> options, filePath |-> "Aa.md",
               sections |-> splitByHeadings(Document(name)),
               tokens |-> <<>>, cursor |-> 0, chunks |-> <<>>, globalIndex |-> 0]

LoopGuard_NoCap(c) == c.cursor < Len(c.tokens)

\* cursor < tokens.length && chunks.length < maxChunks
LoopGuard(c) == c.cursor < Len(c.tokens) /\ Len(c.chunks) < c.options.maxChunks

\* for (const section of sections): tokens = tokenize(section.body), cursor = 0
NextSection ==
  /\ chunker.pc = "sections" /\ Len(chunker.sections) > 0
  /\ chunker' = [chunker EXCEPT !.pc = "window",
                                !.tokens = tokenize(Head(chunker.sections).body),
                                !.cursor = 0]

\* one iteration of the while loop
WindowStep ==
  /\ chunker.pc = "window" /\ LoopGuard(chunker)
  /\ chunker' = [chunker EXCEPT
       !.chunks = Append(@, Window(chunker.filePath, Head(chunker.sections).heading,
                                   chunker.tokens, chunker.cursor,
                                   chunker.options.chunkSize, chunker.globalIndex)),
       !.globalIndex = @ + 1,
       !.cursor = @ + Stride(chunker.options.chunkSize, chunker.options.chunkOverlap)]

\* the while condition fails: on to the next section
SectionDone ==
  /\ chunker.pc = "window" /\ ~LoopGuard(chunker)
  /\ chunker' = [chunker EXCEPT !.pc = "sections", !.sections = Tail(@)]

\* return chunks
ChunkReturn ==
  /\ chunker.pc = "sections" /\ Len(chunker.sections) = 0
  /\ chunker' = [chunker EXCEPT !.pc = "returned"]

-----------------------------------------------------------------------------
(* VectorStore: bindings, chunk store and the handlers of vault events *)

Paths == {"Aa.md", "BB.md"}

EmptyMap == [k \in {} |-> k]
MapSet(m, key, value) == [k \in DOMAIN m \cup {key} |-> IF k = key THEN value ELSE m[k]]
MapDelete(m, keys) == [k \in DOMAIN m \ keys |-> m[k]]
Range(s) == { s[i] : i \in DOMAIN s }

\* chunk store after insertChunk of every chunk of the list, in order
RECURSIVE InsertAll(_, _)
InsertAll(store, chunks) ==
  IF Len(chunks) = 0 THEN store
  ELSE InsertAll(MapSet(store, Head(chunks).id, Head(chunks)), Tail(chunks))

\* chunk store after the loop of removeBindings over ids
RemoveBound(store, ids) == MapDelete(store, Range(ids))

\* chunk store after the loop of renameFile over ids
RECURSIVE Repath(_, _, _)
Repath(store, ids, newPath) ==
  IF Len(ids) = 0 THEN store
  ELSE IF Head(ids) \notin DOMAIN store THEN Repath(store, Tail(ids), newPath)
  ELSE Repath(MapSet(store, Head(ids), [store[Head(ids)] EXCEPT !.filePath = newPath]),
              Tail(ids), newPath)

\* the index a VectorStore object holds in memory
Index == [bindings |-> bindings, cachedChunks |-> cachedChunks, db |-> db]
EmptyIndex == [bindings |-> EmptyMap, cachedChunks |-> EmptyMap, db |-> EmptyMap]

removeBindings(ix, filePath) ==
  IF filePath \notin DOMAIN ix.bindings THEN ix
  ELSE [bindings |-> MapDelete(ix.bindings, {filePath}),
        cachedChunks |-> RemoveBound(ix.cachedChunks, ix.bindings[filePath]),
        db |-> RemoveBound(ix.db, ix.bindings[filePath])]

IndexedFile_Appends(ix, filePath, content) ==
  LET chunks == chunkMarkdown(Document(content), filePath)
      before == IF filePath \in DOMAIN ix.bindings THEN ix.bindings[filePath] ELSE <<>>
  IN [bindings |-> MapSet(ix.bindings, filePath,
                          before \o [i \in 1..Len(chunks) |-> chunks[i].id]),
      cachedChunks |-> InsertAll(ix.cachedChunks, chunks),
      db |-> InsertAll(ix.db, chunks)]

\* the index after the body of indexFile, content: what cachedRead returned
IndexedFile(ix, filePath, content) ==
  LET chunks == chunkMarkdown(Document(content), filePath)
      cleared == removeBindings(ix, filePath)
  IN [bindings |-> MapSet(cleared.bindings, filePath,
                          [i \in 1..Len(chunks) |-> chunks[i].id]),
      cachedChunks |-> InsertAll(cleared.cachedChunks, chunks),
      db |-> InsertAll(cleared.db, chunks)]

RenamedFile_KeepsOldBinding(ix, oldPath, newPath) ==
  IF oldPath \notin DOMAIN ix.bindings THEN ix
  ELSE [bindings |-> MapSet(ix.bindings, newPath, ix.bindings[oldPath]),
        cachedChunks |-> Repath(ix.cachedChunks, ix.bindings[oldPath], newPath),
        db |-> Repath(ix.db, ix.bindings[oldPath], newPath)]

\* the index after the body of renameFile
RenamedFile(ix, oldPath, newPath) ==
  IF oldPath \notin DOMAIN ix.bindings THEN ix
  ELSE [bindings |-> MapSet(MapDelete(ix.bindings, {oldPath}), newPath,
                            ix.bindings[oldPath]),
        cachedChunks |-> Repath(ix.cachedChunks, ix.bindings[oldPath], newPath),
        db |-> Repath(ix.db, ix.bindings[oldPath], newPath)]

\* the index after the loop of indexVault over files
RECURSIVE IndexedFiles(_, _, _)
IndexedFiles(ix, files, contents) ==
  IF Len(files) = 0 THEN ix
  ELSE IndexedFiles(IndexedFile(ix, Head(files), contents[Head(files)]),
                    Tail(files), contents)

\* getMarkdownFiles(): the documents of the vault, in an order the host chooses
MarkdownFiles(contents) ==
  LET present == { p \in Paths : contents[p] # "absent" }
  IN { files \in [1..Cardinality(present) -> present] :
         \A i, j \in DOMAIN files : i # j => files[i] # files[j] }

-----------------------------------------------------------------------------
(* VectorStore: the snapshot *)

\* values of persistPath: the default path, and '' (persistence switched off)
PersistPaths == {".cortex-index.json", ""}

\* Array.from of a collection: its elements one after the other
RECURSIVE SetToSeq(_)
SetToSeq(S) ==
  IF S = {} THEN <<>>
  ELSE LET x == CHOOSE x \in S : TRUE IN <<x>> \o SetToSeq(S \ {x})

\* Array.from(map.entries()) and Array.from(map.values())
Entries(m) == LET keys == SetToSeq(DOMAIN m)
              IN [i \in 1..Len(keys) |-> <<keys[i], m[keys[i]]>>]
Values(m) == LET keys == SetToSeq(DOMAIN m)
             IN [i \in 1..Len(keys) |-> m[keys[i]]]

\* new Map(entries)
RECURSIVE FromEntries(_)
FromEntries(entries) ==
  IF Len(entries) = 0 THEN EmptyMap
  ELSE MapSet(FromEntries(SubSeq(entries, 1, Len(entries) - 1)),
              entries[Len(entries)][1], entries[Len(entries)][2])

\* contents of the snapshot file: none, text that JSON.parse rejects, or JSON
NoFile == [kind |-> "missing"]
Unparseable == [kind |-> "unparseable"]
\* JSON.stringify(payload) of persistIndex
Serialized(ix) ==
  [kind |-> "json", bindings |-> Entries(ix.bindings), chunks |-> Values(ix.cachedChunks)]
\* a JSON document that has the bindings and no chunk list
WithoutChunkList(content) == [kind |-> "json", bindings |-> content.bindings]

NothingSaved == [kind |-> "none"]
SavedIndex(ix) ==
  [kind |-> "index", bindings |-> ix.bindings, cachedChunks |-> ix.cachedChunks]

\* persistIndex() with ix in memory
persistIndex(ix) ==
  IF persistPath = ""
  THEN UNCHANGED <<snapshot, saved>>
  ELSE snapshot' = Serialized(ix) /\ saved' = SavedIndex(ix)

restoreIndex_BindingsOnly(ix, content) ==
  IF persistPath = "" \/ content.kind = "missing" \/ content.kind = "unparseable"
  THEN ix
  ELSE [ix EXCEPT !.bindings = FromEntries(content.bindings)]

\* the index after restoreIndex() on ix, content: the snapshot file
restoreIndex(ix, content) ==
  IF persistPath = "" \/ content.kind = "missing" \/ content.kind = "unparseable"
  THEN ix
  ELSE LET bound == [ix EXCEPT !.bindings = FromEntries(content.bindings)]
       IN IF "chunks" \notin DOMAIN content THEN bound
          ELSE [bound EXCEPT !.cachedChunks = InsertAll(ix.cachedChunks, content.chunks),
                             !.db = InsertAll(ix.db, content.chunks)]

-----------------------------------------------------------------------------
(* VectorStore: operations and the plugin lifecycle *)

Operation(op, path, arg) == [op |-> op, path |-> path, arg |-> arg]
Push(h, operation) ==
  IF Len(h) < 2 THEN Append(h, operation) ELSE <<h[2], operation>>

InitStore ==
  /\ bindings = EmptyMap
  /\ cachedChunks = EmptyMap
  /\ db = EmptyMap
  /\ vault = [p \in Paths |-> "absent"]
  /\ persistPath \in PersistPaths
  /\ snapshot = NoFile
  /\ phase = "unloaded"
  /\ history = <<>>
  /\ saved = NothingSaved
  /\ loads = 0

Commit_PersistFirst(ix) ==
  /\ bindings' = ix.bindings
  /\ cachedChunks' = ix.cachedChunks
  /\ db' = ix.db
  /\ persistIndex(Index)

\* the in-memory index becomes ix, then persistIndex()
Commit(ix) ==
  /\ bindings' = ix.bindings
  /\ cachedChunks' = ix.cachedChunks
  /\ db' = ix.db
  /\ persistIndex(ix)

\* indexFile(file): file is a document of the vault
indexFile(filePath) ==
  /\ Commit(IndexedFile(Index, filePath, vault'[filePath]))
  /\ history' = Push(history, Operation("indexFile", filePath, vault'[filePath]))

removeFile(filePath) ==
  /\ Commit(removeBindings(Index, filePath))
  /\ history' = Push(history, Operation("removeFile", filePath, ""))

renameFile(oldPath, newPath) ==
  /\ IF oldPath \notin DOMAIN bindings
     THEN UNCHANGED <<bindings, cachedChunks, db, snapshot, saved>>
     ELSE Commit(RenamedFile(Index, oldPath, newPath))
  /\ history' = Push(history, Operation("renameFile", oldPath, newPath))

indexVault ==
  \E files \in MarkdownFiles(vault) :
    Commit(IndexedFiles(Index, files, vault))

\* onload -> initialize(), up to the end of restoreIndex(): a new VectorStore
Load ==
  /\ phase = "unloaded"
  /\ loads < MaxLoads
  /\ loads' = loads + 1
  /\ phase' = "restored"
  /\ LET ix == restoreIndex(EmptyIndex, snapshot)
     IN bindings' = ix.bindings /\ cachedChunks' = ix.cachedChunks /\ db' = ix.db
  /\ history' = <<>>
  /\ UNCHANGED <<vault, persistPath, snapshot, saved>>

\* the rest of initialize(): indexVault(), observeVault()
InitialIndex ==
  /\ phase = "restored"
  /\ phase' = "ready"
  /\ indexVault
  /\ history' = Push(history, Operation("indexVault", "", ""))
  /\ UNCHANGED <<vault, persistPath, loads>>

\* the command "Rebuild Cortex index"
Rebuild ==
  /\ phase = "ready"
  /\ indexVault
  /\ history' = Push(history, Operation("indexVault", "", ""))
  /\ UNCHANGED <<vault, persistPath, phase, loads>>

\* the plugin is unloaded: its VectorStore and event subscriptions are gone
Unload ==
  /\ phase = "ready"
  /\ phase' = "unloaded"
  /\ bindings' = EmptyMap /\ cachedChunks' = EmptyMap /\ db' = EmptyMap
  /\ history' = <<>>
  /\ UNCHANGED <<vault, persistPath, snapshot, saved, loads>>

\* a document is created in the vault; the index subscribes to no such event
VaultCreate ==
  \E p \in Paths, name \in VaultDocuments :
    /\ vault[p] = "absent"
    /\ vault' = [vault EXCEPT ![p] = name]
    /\ UNCHANGED <<bindings, cachedChunks, db, persistPath, snapshot, phase,
                   history, saved, loads>>

\* a document is modified or deleted while the plugin is not loaded
OfflineEdit ==
  \E p \in Paths, name \in VaultDocuments \cup {"absent"} :
    /\ phase = "unloaded"
    /\ vault[p] \notin {"absent", name}
    /\ vault' = [vault EXCEPT ![p] = name]
    /\ UNCHANGED <<bindings, cachedChunks, db, persistPath, snapshot, phase,
                   history, saved, loads>>

\* the snapshot file is deleted, cut short, or loses its chunk list while the
\* plugin is not loaded
SnapshotDamaged ==
  /\ phase = "unloaded"
  /\ snapshot.kind = "json" /\ "chunks" \in DOMAIN snapshot
  /\ snapshot' \in {NoFile, Unparseable, WithoutChunkList(snapshot)}
  /\ saved' = NothingSaved
  /\ UNCHANGED <<bindings, cachedChunks, db, vault, persistPath, phase, history, loads>>

\* the vault reports a modified document: handleModify -> indexFile
handleModify ==
  \E p \in Paths, name \in VaultDocuments :
    /\ phase = "ready"
    /\ vault[p] # "absent"
    /\ vault' = [vault EXCEPT ![p] = name]
    /\ indexFile(p)
    /\ UNCHANGED <<persistPath, phase, loads>>

\* the vault reports a deleted document: handleDelete -> removeFile
handleDelete ==
  \E p \in Paths :
    /\ phase = "ready"
    /\ vault[p] # "absent"
    /\ vault' = [vault EXCEPT ![p] = "absent"]
    /\ removeFile(p)
    /\ UNCHANGED <<persistPath, phase, loads>>

\* the vault reports a renamed document: handleRename -> renameFile
handleRename ==
  \E oldPath \in Paths, newPath \in Paths :
    /\ phase = "ready"
    /\ oldPath # newPath
    /\ vault[oldPath] # "absent"
    /\ vault[newPath] = "absent"
    /\ vault' = [vault EXCEPT ![oldPath] = "absent", ![newPath] = vault[oldPath]]
    /\ renameFile(oldPath, newPath)
    /\ UNCHANGED <<persistPath, phase, loads>>

-----------------------------------------------------------------------------
(* VectorStore.search: candidate lists and score fusion *)

\* hybridWeights.keyword ?? 0.55 and hybridWeights.vector ?? 0.45, in hundredths
KeywordWeight == 55
VectorWeight == 45

\* the vault searched: Aa.md holds a one-chunk document, BB.md a three-chunk
\* document; cachedChunks.values() lists the chunks file by file, in the
\* order indexVault went through the files
SearchedVault == [p \in Paths |-> IF p = "Aa.md" THEN "intro" ELSE "two"]

RECURSIVE ChunksOfFiles(_, _)
ChunksOfFiles(files, contents) ==
  IF Len(files) = 0 THEN <<>>
  ELSE chunkMarkdown(Document(contents[Head(files)]), Head(files))
         \o ChunksOfFiles(Tail(files), contents)

SearchedStores == { ChunksOfFiles(files, SearchedVault) : files \in MarkdownFiles(SearchedVault) }
SearchedContents == { chunk.content : chunk \in UNION { Range(store) : store \in SearchedStores } }

\* simpleMatchScore(chunk.content, tokens) and cosineSimilarity(embedding,
\* chunk.embedding) depend on the chunk through its content only: a score
\* table gives the score of each content for the query, in units of 1/MaxScore
ScoreTables == [SearchedContents -> 0..MaxScore]

\* VectorSearchResult
Candidate(chunk, score) ==
  [content |-> chunk.content, filePath |-> chunk.filePath,
   blockId |-> chunk.blockId, score |-> score]

\* Array.prototype.sort((a, b) => b.score - a.score): stable, descending
RECURSIVE InsertByScore(_, _)
InsertByScore(sorted, r) ==
  IF Len(sorted) = 0 THEN <<r>>
  ELSE IF Head(sorted).score >= r.score
  THEN <<Head(sorted)>> \o InsertByScore(Tail(sorted), r)
  ELSE <<r>> \o sorted

RECURSIVE SortByScore(_)
SortByScore(list) ==
  IF Len(list) = 0 THEN <<>>
  ELSE InsertByScore(SortByScore(SubSeq(list, 1, Len(list) - 1)), list[Len(list)])

\* keywordSearch without Orama: chunks with a positive match score
RECURSIVE Matches(_, _)
Matches(chunks, table) ==
  IF Len(chunks) = 0 THEN <<>>
  ELSE IF table[Head(chunks).content] > 0
  THEN <<Candidate(Head(chunks), table[Head(chunks).content])>> \o Matches(Tail(chunks), table)
  ELSE Matches(Tail(chunks), table)

keywordSearch(chunks, table, limit) == Slice(SortByScore(Matches(chunks, table)), limit)

\* vectorSearch keeping the chunks of positive similarity only
vectorSearch_PositiveOnly(chunks, table, limit) ==
  Slice(SortByScore(Matches(chunks, table)), limit)

\* vectorSearch: every chunk, with its cosine similarity
vectorSearch(chunks, table, limit) ==
  Slice(SortByScore([i \in 1..Len(chunks) |-> Candidate(chunks[i], table[chunks[i].content])]),
        limit)

\* Fused scores are kept as integers over a common denominator: a score s
\* stands for s / (100 * ScoreScale), the weights being in hundredths.
FirstScore(results) == IF Len(results) > 0 THEN results[1].score ELSE 1
NonZero(n) == IF n = 0 THEN 1 ELSE n
ScoreScale(bm25Results, vectorResults) ==
  NonZero(FirstScore(bm25Results)) * NonZero(FirstScore(vectorResults))

\* (maxBm25 ? result.score / maxBm25 : 0) * keywordWeight
KeywordPart(r, bm25Results, vectorResults) ==
  IF FirstScore(bm25Results) = 0 THEN 0
  ELSE KeywordWeight * r.score * NonZero(FirstScore(vectorResults))

\* (maxVector ? result.score / maxVector : 0) * vectorWeight
VectorPart(r, bm25Results, vectorResults) ==
  IF FirstScore(vectorResults) = 0 THEN 0
  ELSE VectorWeight * r.score * NonZero(FirstScore(bm25Results))

\* combined: the values of a Map keyed by blockId, in insertion order
KeyIndex(combined, blockId) ==
  IF \E i \in DOMAIN combined : combined[i].blockId = blockId
  THEN CHOOSE i \in DOMAIN combined : combined[i].blockId = blockId
  ELSE 0

\* the first loop of search: combined.set(result.blockId, ...)
RECURSIVE MergeKeyword(_, _, _, _)
MergeKeyword(combined, rest, bm25Results, vectorResults) ==
  IF Len(rest) = 0 THEN combined
  ELSE LET r == [Head(rest) EXCEPT !.score = KeywordPart(Head(rest), bm25Results, vectorResults)]
           i == KeyIndex(combined, r.blockId)
       IN MergeKeyword(IF i = 0 THEN Append(combined, r) ELSE [combined EXCEPT ![i] = r],
                       Tail(rest), bm25Results, vectorResults)

\* the second loop of search: existing.score += weighted, or combined.set
RECURSIVE MergeVector(_, _, _, _)
MergeVector(combined, rest, bm25Results, vectorResults) ==
  IF Len(rest) = 0 THEN combined
  ELSE LET weighted == VectorPart(Head(rest), bm25Results, vectorResults)
           i == KeyIndex(combined, Head(rest).blockId)
       IN MergeVector(IF i = 0 THEN Append(combined, [Head(rest) EXCEPT !.score = weighted])
                      ELSE [combined EXCEPT ![i].score = @ + weighted],
                      Tail(rest), bm25Results, vectorResults)

\* search(query, limit) from the two candidate lists on
Fused(bm25Results, vectorResults, limit) ==
  Slice(SortByScore(MergeVector(MergeKeyword(<<>>, bm25Results, bm25Results, vectorResults),
                                vectorResults, bm25Results, vectorResults)),
        limit)

FusionIdle == [phase |-> "idle"]

\* entry of search(query, limit): the store, the scores of the query, limit
InitFusion ==
  \E chunks \in SearchedStores, keywordScore \in ScoreTables,
     vectorScore \in ScoreTables, limit \in 1..MaxLimit :
    fusion = [phase |-> "search", chunks |-> chunks, keywordScore |-> keywordScore,
              vectorScore |-> vectorScore, limit |-> limit,
              bm25Results |-> <<>>, vectorResults |-> <<>>, results |-> <<>>]

\* const bm25Results = await this.keywordSearch(query, limit * 2)
KeywordSearch ==
  /\ fusion.phase = "search"
  /\ fusion' = [fusion EXCEPT !.phase = "keyword done",
       !.bm25Results = keywordSearch(fusion.chunks, fusion.keywordScore, fusion.limit * 2)]

\* const vectorResults = await this.vectorSearch(query, limit * 2)
VectorSearch ==
  /\ fusion.phase = "keyword done"
  /\ fusion' = [fusion EXCEPT !.phase = "vector done",
       !.vectorResults = vectorSearch(fusion.chunks, fusion.vectorScore, fusion.limit * 2)]

\* the rest of search: normalise, merge, sort, slice
Fuse ==
  /\ fusion.phase = "vector done"
  /\ fusion' = [fusion EXCEPT !.phase = "fused",
       !.results = Fused(fusion.bm25Results, fusion.vectorResults, fusion.limit)]

-----------------------------------------------------------------------------
(* ModelRouter of services/ModelRouter.ts: route('assistant', ...) with the  *)
(* prompt cache and route('research', ...) with the context cache.  Several  *)
(* calls may be in flight: a call is suspended at each await and the others  *)
(* run meanwhile.                                                            *)

\* the requests given to route('assistant', ...): a request, and the requests
\* that differ from it in the messages, in the context, or in the model
AssistantRequests ==
  { [messages |-> <<"m1">>, context |-> <<"c1">>, model |-> Undefined],
    [messages |-> <<"m2">>, context |-> <<"c1">>, model |-> Undefined],
    [messages |-> <<"m1">>, context |-> <<>>, model |-> Undefined],
    [messages |-> <<"m1">>, context |-> <<"c1">>, model |-> "claude-3-opus"] }
\* the requests given to route('research', ...)
ResearchRequests ==
  { [messages |-> <<"m1">>, context |-> context, model |-> Undefined] :
      context \in {<<>>, <<"c1">>} }

\* modelId ?? 'claude-3-5-sonnet-20241022'
AssistantModel(modelId) ==
  IF modelId = Undefined THEN "claude-3-5-sonnet-20241022" ELSE modelId

\* digestText(input): SHA-256 in hexadecimal; distinct inputs of the model
\* have distinct digests
digestText(input) == <<"sha256">> \o input

\* `${JSON.stringify(messages)}::${context}`
PromptText(msgs, context) == <<"json">> \o msgs \o <<"::">> \o context

\* the text returned when no key is stored for the provider
MissingKeyText(task) ==
  IF task = "assistant"
  THEN <<"Anthropic API key is missing. Please store a key labeled \"anthropic\" or \"claude\".">>
  ELSE <<"Gemini API key is missing. Please store a key labeled \"gemini\" or \"google\".">>

\* what the provider's client did with a request: text, no text, or failure
RouterReplies ==
  { [status |-> "ok", hasText |-> TRUE, text |-> <<"a">>],
    [status |-> "ok", hasText |-> FALSE, text |-> <<>>],
    [status |-> "network_error", hasText |-> FALSE, text |-> <<>>] }

NoResponse == [text |-> <<>>, provider |-> "", cacheKey |-> <<>>, askedWith |-> <<>>]
NoEntry == [id |-> 0, digest |-> <<>>, created |-> 0]

\* the request of a call, as the backend receives it
Asked(c) == <<c.messages, c.context, AssistantModel(c.model)>>

\* a call of route: pc is the await it is suspended on; after: the calls that
\* had settled when this one began
NewCall(task, msgs, context, modelId, settled) ==
  [task |-> task, messages |-> msgs, context |-> context, model |-> modelId,
   pc |-> "getApiKey", after |-> settled, backendCalls |-> 0, source |-> "none",
   response |-> NoResponse, cacheEntry |-> NoEntry, reusedAge |-> -1]

SettledCalls == { i \in DOMAIN calls : calls[i].pc \in {"returned", "rejected"} }

InitRouter ==
  /\ claudePromptCache = EmptyMap
  /\ geminiCache = EmptyMap
  /\ now = 0
  /\ calls = <<>>

\* route('assistant', params) is called
AssistantCall ==
  /\ Len(calls) < MaxAssistantCalls
  /\ \E r \in AssistantRequests :
       calls' = Append(calls, NewCall("assistant", r.messages, r.context, r.model,
                                      SettledCalls))
  /\ UNCHANGED <<claudePromptCache, geminiCache, now>>

\* route('research', params) is called
ResearchCall ==
  /\ Len(calls) < MaxResearchCalls
  /\ \E r \in ResearchRequests :
       calls' = Append(calls, NewCall("research", r.messages, r.context, r.model,
                                      SettledCalls))
  /\ UNCHANGED <<claudePromptCache, geminiCache, now>>

\* the call returned the text for a missing key
MissingKey(c) ==
  [c EXCEPT !.pc = "returned", !.source = "missing key",
            !.response = [NoResponse EXCEPT !.text = MissingKeyText(c.task)]]

\* runAssistant once getApiKey and digestText have settled, up to the request:
\* the missing-key return, claudePromptCache.get, client.messages.create
AssistantLookup ==
  \E i \in DOMAIN calls, hasKey \in BOOLEAN :
    /\ calls[i].task = "assistant" /\ calls[i].pc = "getApiKey"
    /\ LET promptHash == digestText(PromptText(calls[i].messages, calls[i].context))
       IN calls' = [calls EXCEPT ![i] =
            IF ~hasKey THEN MissingKey(calls[i])
            ELSE IF promptHash \in DOMAIN claudePromptCache
            THEN [@ EXCEPT !.pc = "returned", !.source = "cache",
                           !.response = claudePromptCache[promptHash]]
            ELSE [@ EXCEPT !.pc = "messages.create", !.backendCalls = @ + 1]]
    /\ UNCHANGED <<claudePromptCache, geminiCache, now>>

\* client.messages.create settles and the response is returned without
\* claudePromptCache.set
AssistantCompletion_NoStore ==
  \E i \in DOMAIN calls, backend \in RouterReplies :
    /\ calls[i].task = "assistant" /\ calls[i].pc = "messages.create"
    /\ LET promptHash == digestText(PromptText(calls[i].messages, calls[i].context))
           response == [text |-> IF backend.hasText THEN backend.text
                                 ELSE <<"Claude did not return a response.">>,
                        provider |-> "claude", cacheKey |-> promptHash,
                        askedWith |-> Asked(calls[i])]
       IN calls' = IF backend.status \in BackendFailures
                   THEN [calls EXCEPT ![i].pc = "rejected"]
                   ELSE [calls EXCEPT ![i].pc = "returned", ![i].source = "backend",
                                      ![i].response = response]
    /\ UNCHANGED <<claudePromptCache, geminiCache, now>>

\* client.messages.create settles: the response is cached and returned
AssistantCompletion ==
  \E i \in DOMAIN calls, backend \in RouterReplies :
    /\ calls[i].task = "assistant" /\ calls[i].pc = "messages.create"
    /\ LET promptHash == digestText(PromptText(calls[i].messages, calls[i].context))
           response == [text |-> IF backend.hasText THEN backend.text
                                 ELSE <<"Claude did not return a response.">>,
                        provider |-> "claude", cacheKey |-> promptHash,
                        askedWith |-> Asked(calls[i])]
       IN IF backend.status \in BackendFailures
          THEN /\ calls' = [calls EXCEPT ![i].pc = "rejected"]
               /\ UNCHANGED claudePromptCache
          ELSE /\ calls' = [calls EXCEPT ![i].pc = "returned", ![i].source = "backend",
                                         ![i].response = response]
               /\ claudePromptCache' = MapSet(claudePromptCache, promptHash, response)
    /\ UNCHANGED <<geminiCache, now>>

\* runDeepResearch once getApiKey has settled, and ensureGeminiCache up to
\* the upload: the missing-key return, geminiCache.get, fetch
ContextCacheLookup ==
  \E i \in DOMAIN calls, hasKey \in BOOLEAN :
    /\ calls[i].task = "research" /\ calls[i].pc = "getApiKey"
    /\ LET digest == digestText(calls[i].context)
       IN calls' = [calls EXCEPT ![i] =
            IF ~hasKey THEN MissingKey(calls[i])
            ELSE IF calls[i].context = <<>>
            THEN [@ EXCEPT !.pc = "generateContent", !.backendCalls = @ + 1]
            ELSE IF digest \in DOMAIN geminiCache
            THEN [@ EXCEPT !.pc = "generateContent", !.backendCalls = @ + 1,
                           !.source = "cache", !.cacheEntry = geminiCache[digest],
                           !.reusedAge = now - geminiCache[digest].created]
            ELSE [@ EXCEPT !.pc = "fetch"]]
    /\ UNCHANGED <<claudePromptCache, geminiCache, now>>

\* the POST of ensureGeminiCache settles and the entry is stored whether or
\* not the service accepted the upload
ContextCacheCreated_StoreFailed ==
  \E i \in DOMAIN calls, ok \in BOOLEAN :
    /\ calls[i].task = "research" /\ calls[i].pc = "fetch"
    /\ LET digest == digestText(calls[i].context)
           entry == [id |-> i, digest |-> digest, created |-> now]
       IN /\ geminiCache' = MapSet(geminiCache, digest, entry)
          /\ calls' = [calls EXCEPT ![i].pc = "generateContent",
                                    ![i].backendCalls = @ + 1,
                                    ![i].source = IF ok THEN "backend" ELSE @,
                                    ![i].cacheEntry = IF ok THEN entry ELSE @]
    /\ UNCHANGED <<claudePromptCache, now>>

\* the POST of ensureGeminiCache settles: on success the entry is stored
ContextCacheCreated ==
  \E i \in DOMAIN calls, ok \in BOOLEAN :
    /\ calls[i].task = "research" /\ calls[i].pc = "fetch"
    /\ LET digest == digestText(calls[i].context)
           entry == [id |-> i, digest |-> digest, created |-> now]
       IN IF ok
          THEN /\ geminiCache' = MapSet(geminiCache, digest, entry)
               /\ calls' = [calls EXCEPT ![i].pc = "generateContent",
                                         ![i].backendCalls = @ + 1,
                                         ![i].source = "backend",
                                         ![i].cacheEntry = entry]
          ELSE /\ UNCHANGED geminiCache
               /\ calls' = [calls EXCEPT ![i].pc = "generateContent",
                                         ![i].backendCalls = @ + 1]
    /\ UNCHANGED <<claudePromptCache, now>>

\* model.generateContent settles
GenerateContent ==
  \E i \in DOMAIN calls, backend \in RouterReplies :
    /\ calls[i].task = "research" /\ calls[i].pc = "generateContent"
    /\ calls' = [calls EXCEPT ![i] =
         IF backend.status \in BackendFailures THEN [@ EXCEPT !.pc = "rejected"]
         ELSE [@ EXCEPT !.pc = "returned",
                        !.response = [text |-> IF backend.hasText THEN backend.text
                                               ELSE <<"Gemini did not return a response.">>,
                                      provider |-> "gemini", cacheKey |-> <<>>,
                                      askedWith |-> Asked(calls[i])]]]
    /\ UNCHANGED <<claudePromptCache, geminiCache, now>>

\* time passes: one millisecond, or as long as the context cache is to live
ClockTick ==
  /\ (now \div geminiContextCacheTtlMs) + (now % geminiContextCacheTtlMs) < MaxClockTicks
  /\ \E elapsed \in {1, geminiContextCacheTtlMs} : now' = now + elapsed
  /\ UNCHANGED <<claudePromptCache, geminiCache, calls>>

-----------------------------------------------------------------------------
(* VectorStore.embed: local transformer, remote embeddings, token frequencies *)

\* A text given to embed is a sequence of pieces: a word, a blank " " or a
\* punctuation mark "!".  Words are separated by blanks or punctuation.
EmbedTexts ==
  { <<>>, <<" ">>, <<"!">>, <<"a">>, <<" ", "b", " ", "a", "!", "B", " ">> }

\* the words in lexicographic order, as Array.prototype.sort leaves them
SortedWords == <<"a", "b">>

\* text.trim()
RECURSIVE TrimStart(_)
TrimStart(text) ==
  IF Len(text) > 0 /\ Head(text) = " " THEN TrimStart(Tail(text)) ELSE text
RECURSIVE TrimEnd(_)
TrimEnd(text) ==
  IF Len(text) > 0 /\ text[Len(text)] = " "
  THEN TrimEnd(SubSeq(text, 1, Len(text) - 1)) ELSE text
Trim(text) == TrimEnd(TrimStart(text))

ToLowerCase(piece) == IF piece = "B" THEN "b" ELSE piece

\* tokenize of the embedder: lower-case, whatever is not a letter, a digit or
\* a blank becomes a blank, split on blanks, drop empties
RECURSIVE tokenizeText(_)
tokenizeText(text) ==
  IF Len(text) = 0 THEN <<>>
  ELSE IF Head(text) \in {" ", "!"} THEN tokenizeText(Tail(text))
  ELSE <<ToLowerCase(Head(text))>> \o tokenizeText(Tail(text))

\* A vector whose i-th number is values[i] / sqrt(norm2).
Vector(values, norm2) == [values |-> values, norm2 |-> norm2]
\* null, returned by a backend that is not available
NoVector == Vector(<<>>, 0)
\* an exception that leaves a backend function
EmbedError == Vector(<<>>, -1)
\* what the embeddings endpoint and the local pipeline compute
RemoteVector == Vector(<<1, 2, 2>>, 9)
LocalVector == Vector(<<2, 1>>, 5)

Count(tokens, term) == Cardinality({ i \in DOMAIN tokens : tokens[i] = term })

RECURSIVE SumOfSquares(_)
SumOfSquares(values) ==
  IF Len(values) = 0 THEN 0
  ELSE Head(values) * Head(values) + SumOfSquares(Tail(values))

\* simpleFrequencyEmbedding: the frequency of every term of the sorted
\* vocabulary, divided by Math.hypot(...vector) || 1
simpleFrequencyEmbedding(text) ==
  LET tokens == tokenizeText(text)
      vocab == SelectSeq(SortedWords, LAMBDA term : Count(tokens, term) > 0)
      vector == [i \in DOMAIN vocab |-> Count(tokens, vocab[i])]
      norm2 == IF SumOfSquares(vector) = 0 THEN 1 ELSE SumOfSquares(vector)
  IN Vector(vector, norm2)

\* what fetch and response.json() did with the embeddings request
FetchOutcomes == {"network_error", "http_error", "bad_json", "no_embedding", "vector"}
\* what the pipeline did with the text
InferenceOutcomes == {"inference_error", "no_data", "vector"}

\* embedWithOpenAI with the try block left out (fetch or response.json()
\* rejecting leaves the function)
embedWithOpenAI_NoCatch(hasKey, outcome) ==
  IF ~hasKey THEN NoVector
  ELSE IF outcome \in {"network_error", "bad_json"} THEN EmbedError
  ELSE IF outcome = "vector" THEN RemoteVector
  ELSE NoVector

\* embedWithOpenAI: null without a key, on a rejected fetch, on a status that
\* is not ok, on a body that cannot be parsed or holds no embedding array
embedWithOpenAI(hasKey, outcome) ==
  IF ~hasKey THEN NoVector
  ELSE IF outcome = "vector" THEN RemoteVector
  ELSE NoVector

\* runTransformer: null when the pipeline rejects or yields no data
runTransformer(outcome) ==
  IF outcome = "vector" THEN LocalVector ELSE NoVector

NewEmbed(text) ==
  [text |-> text, pc |-> "embed", tried |-> <<>>, source |-> "none", result |-> NoVector]

Tried(c, backend, outcome) == [c EXCEPT !.tried = Append(@, <<backend, outcome>>)]
Returned(c, source, vector) ==
  [c EXCEPT !.pc = "returned", !.source = source, !.result = vector]

InitEmbedder ==
  /\ transformerPipeline = FALSE
  /\ loadingLocalTransformer = FALSE
  /\ embedCalls = <<>>
InitEmbed == isMobile = FALSE /\ InitEmbedder

\* embed(text) is called (by insertChunk or by vectorSearch)
EmbedCall ==
  /\ Len(embedCalls) < MaxEmbedCalls
  /\ \E text \in EmbedTexts : embedCalls' = Append(embedCalls, NewEmbed(text))
  /\ UNCHANGED <<isMobile, transformerPipeline, loadingLocalTransformer>>

\* embed up to its first await: the empty text, the choice by appIsMobile,
\* embedWithLocalTransformers up to transformers.pipeline(...)
EmbedBegin ==
  \E i \in DOMAIN embedCalls :
    /\ embedCalls[i].pc = "embed"
    /\ LET c == embedCalls[i] IN
       IF Len(Trim(c.text)) = 0
       THEN /\ embedCalls' = [embedCalls EXCEPT ![i] = Returned(c, "empty", Vector(<<0>>, 1))]
            /\ UNCHANGED loadingLocalTransformer
       ELSE IF isMobile
       THEN /\ embedCalls' = [embedCalls EXCEPT ![i].pc = "loadSecret"]
            /\ UNCHANGED loadingLocalTransformer
       ELSE IF transformerPipeline
       THEN /\ embedCalls' = [embedCalls EXCEPT ![i].pc = "inference"]
            /\ UNCHANGED loadingLocalTransformer
       ELSE IF loadingLocalTransformer
       THEN /\ embedCalls' =
                 [embedCalls EXCEPT ![i] = [Tried(c, "local", "loading") EXCEPT !.pc = "loadSecret"]]
            /\ UNCHANGED loadingLocalTransformer
       ELSE \E hasModule \in BOOLEAN :
              IF hasModule
              THEN /\ loadingLocalTransformer' = TRUE
                   /\ embedCalls' = [embedCalls EXCEPT ![i].pc = "pipeline"]
              ELSE /\ embedCalls' =
                        [embedCalls EXCEPT
                           ![i] = [Tried(c, "local", "no_module") EXCEPT !.pc = "loadSecret"]]
                   /\ UNCHANGED loadingLocalTransformer
    /\ UNCHANGED <<isMobile, transformerPipeline>>

\* transformers.pipeline(...) settled: the pipeline is kept and runTransformer
\* begins, or the catch block returns null; finally clears the loading flag
PipelineLoaded ==
  \E i \in DOMAIN embedCalls, loaded \in BOOLEAN :
    /\ embedCalls[i].pc = "pipeline"
    /\ loadingLocalTransformer' = FALSE
    /\ IF loaded
       THEN /\ transformerPipeline' = TRUE
            /\ embedCalls' = [embedCalls EXCEPT ![i].pc = "inference"]
       ELSE /\ embedCalls' =
                 [embedCalls EXCEPT
                    ![i] = [Tried(embedCalls[i], "local", "load_error") EXCEPT !.pc = "loadSecret"]]
            /\ UNCHANGED transformerPipeline
    /\ UNCHANGED isMobile

\* the pipeline settled on the text: embed returns the local vector or goes on
\* to embedWithOpenAI
TransformerRun ==
  \E i \in DOMAIN embedCalls, outcome \in InferenceOutcomes :
    /\ embedCalls[i].pc = "inference"
    /\ LET c == embedCalls[i]
           local == runTransformer(outcome)
       IN embedCalls' =
            [embedCalls EXCEPT
               ![i] = IF local = EmbedError THEN [c EXCEPT !.pc = "rejected"]
                      ELSE IF local # NoVector THEN Returned(c, "local", local)
                      ELSE [Tried(c, "local", outcome) EXCEPT !.pc = "loadSecret"]]
    /\ UNCHANGED <<isMobile, transformerPipeline, loadingLocalTransformer>>

\* loadSecret('openai'), fetch and response.json() settled: embed returns the
\* remote vector or simpleFrequencyEmbedding(normalized)
RemoteEmbedding ==
  \E i \in DOMAIN embedCalls, hasKey \in BOOLEAN, outcome \in FetchOutcomes :
    /\ embedCalls[i].pc = "loadSecret"
    /\ LET c == embedCalls[i]
           remote == embedWithOpenAI(hasKey, outcome)
           failure == IF hasKey THEN outcome ELSE "no_credential"
       IN embedCalls' =
            [embedCalls EXCEPT
               ![i] = IF remote = EmbedError THEN [c EXCEPT !.pc = "rejected"]
                      ELSE IF remote # NoVector THEN Returned(c, "remote", remote)
                      ELSE Returned(Tried(c, "remote", failure), "fallback",
                                    simpleFrequencyEmbedding(Trim(c.text)))]
    /\ UNCHANGED <<isMobile, transformerPipeline, loadingLocalTransformer>>

-----------------------------------------------------------------------------
(* VectorStore under handlers that overlap in time.  A handler runs until it *)
(* awaits a promise of its environment (import('@orama/orama'),              *)
(* orama.create, vault.cachedRead, orama.insert, orama.remove,               *)
(* vault.process, vault.create); the other handlers run meanwhile.  An       *)
(* await of a method of the store that itself awaits nothing does not let    *)
(* another handler in.  The engine's create, insert and remove are taken to  *)
(* resolve unless db is null; the vault finishes the writes of the snapshot  *)
(* file in the order they were asked for.                                    *)

\* the documents whose events are followed
RacedPaths == {"Aa.md"}
RacedDocuments == {"intro", "empty"}

\* this.db === null
NoDatabase == [null |-> TRUE]

\* the fields of the store a handler reads and writes, with the vault and
\* whether the snapshot file exists
Store ==
  [bindings |-> bindings, cachedChunks |-> cachedChunks, db |-> db, orama |-> orama,
   loading |-> loading, queue |-> writeQueue, vault |-> vault, exists |-> snapshot # NoFile]

\* a call of op; pc: the promise it awaits; failedIn: the method in which the
\* call failed; issued: the document when
\* cachedRead was called; content: what cachedRead returned; during: the
\* handlers that had begun and not settled when this one began
NewHandler(op, path, files, inFlight) ==
  [op |-> op, path |-> path, files |-> files, pc |-> "called", issued |-> "absent",
   content |-> "none", chunks |-> <<>>, ids |-> <<>>, k |-> 1, failedIn |-> "none",
   dbAtReturn |-> "pending", assigned |-> FALSE, lastPersist |-> FALSE, during |-> inFlight]

Suspended == {"import", "create", "cachedRead", "orama.remove", "orama.insert", "write"}
SettledPcs == {"returned", "rejected"}
InFlight == { i \in DOMAIN handlers : handlers[i].pc \notin SettledPcs }

ChunkIds(chunks) == [n \in 1..Len(chunks) |-> chunks[n].id]

\* persistIndex() up to the await: the payload is built and the write asked for
PersistCall(s, h, i) ==
  [s |-> [s EXCEPT !.queue = Append(@, [handler |-> i,
                                        kind |-> IF s.exists THEN "process" ELSE "create",
                                        payload |-> Serialized(s)])],
   h |-> [h EXCEPT !.pc = "write"]]

\* handler i runs from h.pc until it awaits its environment or settles
RECURSIVE Run(_, _, _)
Run(s, h, i) ==
  CASE h.pc \in Suspended \cup SettledPcs -> [s |-> s, h |-> h]
    \* indexVault: the next file of the loop, or the last persistIndex()
    [] h.pc = "called" /\ h.op = "indexVault" ->
         IF Len(h.files) > 0
         THEN Run(s, [h EXCEPT !.path = Head(h.files), !.files = Tail(h.files),
                               !.pc = "ensureDatabase"], i)
         ELSE Run(s, [h EXCEPT !.lastPersist = TRUE, !.pc = "persistIndex"], i)
    [] h.pc = "called" /\ h.op = "removeFile" -> Run(s, [h EXCEPT !.pc = "removeBindings"], i)
    [] h.pc = "called" -> Run(s, [h EXCEPT !.pc = "ensureDatabase"], i)
    \* ensureDatabase: if (this.db || this.loading) return; this.loading = true
    [] h.pc = "ensureDatabase" ->
         IF s.db # NoDatabase \/ s.loading
         THEN Run(s, [h EXCEPT !.pc = "ensured",
                               !.dbAtReturn = IF s.db # NoDatabase THEN "set" ELSE "null"], i)
         ELSE [s |-> [s EXCEPT !.loading = TRUE], h |-> [h EXCEPT !.pc = "import"]]
    \* ensureDatabase returned: search reads on, indexFile calls cachedRead
    [] h.pc = "ensured" ->
         IF h.op = "search" THEN [s |-> s, h |-> [h EXCEPT !.pc = "returned"]]
         ELSE [s |-> s, h |-> [h EXCEPT !.pc = "cachedRead", !.issued = s.vault[h.path]]]
    \* removeBindings: const ids = this.bindings.get(filePath); if (!ids) return
    [] h.pc = "removeBindings" ->
         IF h.path \in DOMAIN s.bindings
         THEN Run(s, [h EXCEPT !.ids = s.bindings[h.path], !.k = 1, !.pc = "removeLoop"], i)
         ELSE Run(s, [h EXCEPT !.pc = "removed"], i)
    [] h.pc = "removeLoop" ->
         IF h.k > Len(h.ids)
         THEN Run([s EXCEPT !.bindings = MapDelete(@, {h.path})], [h EXCEPT !.pc = "removed"], i)
         ELSE LET t == [s EXCEPT !.cachedChunks = MapDelete(@, {h.ids[h.k]})] IN
              IF s.orama THEN [s |-> t, h |-> [h EXCEPT !.pc = "orama.remove"]]
              ELSE IF s.db = NoDatabase
              THEN [s |-> t, h |-> [h EXCEPT !.pc = "rejected", !.failedIn = "removeBindings"]]
              ELSE Run([t EXCEPT !.db = MapDelete(@, {h.ids[h.k]})],
                       [h EXCEPT !.k = @ + 1], i)
    \* removeBindings returned: removeFile persists, indexFile inserts
    [] h.pc = "removed" ->
         IF h.op = "removeFile" THEN Run(s, [h EXCEPT !.pc = "persistIndex"], i)
         ELSE Run(s, [h EXCEPT !.k = 1, !.pc = "insertLoop"], i)
    \* for (const chunk of chunks) await this.insertChunk(chunk); bindings.set
    [] h.pc = "insertLoop" ->
         IF h.k > Len(h.chunks)
         THEN Run([s EXCEPT !.bindings = MapSet(@, h.path, ChunkIds(h.chunks))],
                  [h EXCEPT !.pc = "persistIndex"], i)
         ELSE LET t == [s EXCEPT !.cachedChunks = MapSet(@, h.chunks[h.k].id, h.chunks[h.k])] IN
              IF s.orama THEN [s |-> t, h |-> [h EXCEPT !.pc = "orama.insert"]]
              ELSE IF s.db = NoDatabase
              THEN [s |-> t, h |-> [h EXCEPT !.pc = "rejected", !.failedIn = "insertChunk"]]
              ELSE Run([t EXCEPT !.db = MapSet(@, h.chunks[h.k].id, h.chunks[h.k])],
                       [h EXCEPT !.k = @ + 1], i)
    [] h.pc = "persistIndex" ->
         IF persistPath = "" THEN Run(s, [h EXCEPT !.pc = "persisted"], i)
         ELSE PersistCall(s, h, i)
    \* persistIndex returned
    [] h.pc = "persisted" ->
         IF h.op = "indexVault" /\ ~h.lastPersist THEN Run(s, [h EXCEPT !.pc = "called"], i)
         ELSE [s |-> s, h |-> [h EXCEPT !.pc = "returned"]]

\* the store and the handlers after handler i, changed to h, has run on
Resume(s, h, i) ==
  LET after == Run(s, h, i) IN
    /\ bindings' = after.s.bindings
    /\ cachedChunks' = after.s.cachedChunks
    /\ db' = after.s.db
    /\ orama' = after.s.orama
    /\ loading' = after.s.loading
    /\ writeQueue' = after.s.queue
    /\ handlers' = IF i \in DOMAIN handlers THEN [handlers EXCEPT ![i] = after.h]
                   ELSE Append(handlers, after.h)

InitAsync ==
  /\ orama = FALSE
  /\ loading = FALSE
  /\ handlers = <<>>
  /\ writeQueue = <<>>
  /\ serial = EmptyIndex

\* the plugin has loaded.  With autoIndex, initialize() has run: the backend
\* is chosen, the vault indexed and persisted, the events observed ("ready");
\* without it the store is as constructed ("constructed").
InitRace ==
  /\ persistPath = ".cortex-index.json"
  /\ \E name \in RacedDocuments :
       /\ vault = [p \in Paths |-> IF p \in RacedPaths THEN name ELSE "absent"]
       /\ \/ /\ phase = "constructed"
             /\ bindings = EmptyMap /\ cachedChunks = EmptyMap /\ db = NoDatabase
             /\ orama = FALSE
             /\ snapshot = NoFile
          \/ /\ phase = "ready"
             /\ orama \in BOOLEAN
             /\ \E files \in MarkdownFiles(vault) :
                  LET ix == IndexedFiles(EmptyIndex, files, vault)
                  IN /\ bindings = ix.bindings /\ cachedChunks = ix.cachedChunks /\ db = ix.db
                     /\ snapshot = Serialized(ix)
  /\ loading = FALSE
  /\ handlers = <<>>
  /\ writeQueue = <<>>
  /\ serial = [Index EXCEPT !.db = IF db = NoDatabase THEN EmptyMap ELSE db]
  /\ history = <<>>
  /\ saved = NothingSaved
  /\ loads = 1

\* the vault reports a modified document: handleModify -> indexFile
ModifyEvent ==
  \E p \in RacedPaths, name \in RacedDocuments :
    /\ phase = "ready"
    /\ Len(handlers) < MaxHandlers
    /\ vault[p] \notin {"absent", name}
    /\ vault' = [vault EXCEPT ![p] = name]
    /\ Resume([Store EXCEPT !.vault = vault'], NewHandler("indexFile", p, <<>>, InFlight),
              Len(handlers) + 1)
    /\ serial' = IndexedFile(serial, p, name)
    /\ UNCHANGED <<persistPath, snapshot, phase, history, saved, loads>>

\* the vault reports a deleted document: handleDelete -> removeFile
DeleteEvent ==
  \E p \in RacedPaths :
    /\ phase = "ready"
    /\ Len(handlers) < MaxHandlers
    /\ vault[p] # "absent"
    /\ vault' = [vault EXCEPT ![p] = "absent"]
    /\ Resume([Store EXCEPT !.vault = vault'], NewHandler("removeFile", p, <<>>, InFlight),
              Len(handlers) + 1)
    /\ serial' = removeBindings(serial, p)
    /\ UNCHANGED <<persistPath, snapshot, phase, history, saved, loads>>

\* the command "Rebuild Cortex index": indexVault()
RebuildCommand ==
  \E files \in MarkdownFiles(vault) :
    /\ Len(handlers) < MaxHandlers
    /\ Resume(Store, NewHandler("indexVault", "", files, InFlight), Len(handlers) + 1)
    /\ serial' = IndexedFiles(serial, files, vault)
    /\ UNCHANGED <<vault, persistPath, snapshot, phase, history, saved, loads>>

\* Orchestrator.run or the notes tool calls search(query)
SearchCall ==
  /\ Len(handlers) < MaxHandlers
  /\ Resume(Store, NewHandler("search", "", <<>>, InFlight), Len(handlers) + 1)
  /\ UNCHANGED <<vault, persistPath, snapshot, phase, history, saved, loads, serial>>

\* import('@orama/orama') settled: this.orama = orama and orama.create(...)
\* is called, or the catch block makes the fallback index
ImportSettled ==
  \E i \in DOMAIN handlers, loaded \in BOOLEAN :
    /\ handlers[i].pc = "import"
    /\ IF loaded
       THEN Resume([Store EXCEPT !.orama = TRUE], [handlers[i] EXCEPT !.pc = "create"], i)
       ELSE Resume([Store EXCEPT !.db = EmptyMap, !.loading = FALSE],
                   [handlers[i] EXCEPT !.pc = "ensured", !.assigned = TRUE,
                                       !.dbAtReturn = "set"], i)
    /\ UNCHANGED <<vault, persistPath, snapshot, phase, history, saved, loads, serial>>

\* orama.create(...) settled: this.db is the engine's database, or the
\* fallback index of the catch block; finally clears this.loading
CreateSettled ==
  \E i \in DOMAIN handlers :
    /\ handlers[i].pc = "create"
    /\ Resume([Store EXCEPT !.db = EmptyMap, !.loading = FALSE],
              [handlers[i] EXCEPT !.pc = "ensured", !.assigned = TRUE,
                                  !.dbAtReturn = "set"], i)
    /\ UNCHANGED <<vault, persistPath, snapshot, phase, history, saved, loads, serial>>

\* what cachedRead(file) may return: the document as it was when the read was
\* asked for or as it is now; a document that is gone may fail the read
ReadOutcomes(h) ==
  ({h.issued, vault[h.path]} \ {"absent"})
    \cup (IF vault[h.path] = "absent" THEN {"ENOENT"} ELSE {})

\* vault.cachedRead(file) settled; indexFile runs chunkMarkdown and
\* removeBindings and goes on to the insertions
ReadSettled ==
  \E i \in DOMAIN handlers :
    /\ handlers[i].pc = "cachedRead"
    /\ \E content \in ReadOutcomes(handlers[i]) :
         IF content = "ENOENT"
         THEN Resume(Store, [handlers[i] EXCEPT !.pc = "rejected", !.failedIn = "cachedRead"], i)
         ELSE Resume(Store,
                     [handlers[i] EXCEPT
                        !.content = content,
                        !.chunks = chunkMarkdown(Document(content), handlers[i].path),
                        !.pc = "removeBindings"], i)
    /\ UNCHANGED <<vault, persistPath, snapshot, phase, history, saved, loads, serial>>

\* orama.remove(this.db, id) settled
RemoveSettled ==
  \E i \in DOMAIN handlers :
    /\ handlers[i].pc = "orama.remove"
    /\ LET h == handlers[i] IN
       IF db = NoDatabase
       THEN Resume(Store, [h EXCEPT !.pc = "rejected", !.failedIn = "removeBindings"], i)
       ELSE Resume([Store EXCEPT !.db = MapDelete(@, {h.ids[h.k]})],
                   [h EXCEPT !.k = @ + 1, !.pc = "removeLoop"], i)
    /\ UNCHANGED <<vault, persistPath, snapshot, phase, history, saved, loads, serial>>

\* orama.insert(this.db, chunk) settled
InsertSettled ==
  \E i \in DOMAIN handlers :
    /\ handlers[i].pc = "orama.insert"
    /\ LET h == handlers[i] IN
       IF db = NoDatabase
       THEN Resume(Store, [h EXCEPT !.pc = "rejected", !.failedIn = "insertChunk"], i)
       ELSE Resume([Store EXCEPT !.db = MapSet(@, h.chunks[h.k].id, h.chunks[h.k])],
                   [h EXCEPT !.k = @ + 1, !.pc = "insertLoop"], i)
    /\ UNCHANGED <<vault, persistPath, snapshot, phase, history, saved, loads, serial>>

\* the oldest write of the snapshot file settled: vault.process replaces the
\* content, vault.create makes the file unless it exists by now
WriteSettled ==
  /\ Len(writeQueue) > 0
  /\ LET w == Head(writeQueue)
         h == handlers[w.handler]
         left == [Store EXCEPT !.queue = Tail(writeQueue)]
     IN IF w.kind = "create" /\ snapshot # NoFile
        THEN /\ UNCHANGED snapshot
             /\ Resume(left, [h EXCEPT !.pc = "rejected", !.failedIn = "persistIndex"], w.handler)
        ELSE /\ snapshot' = w.payload
             /\ Resume([left EXCEPT !.exists = TRUE], [h EXCEPT !.pc = "persisted"], w.handler)
  /\ UNCHANGED <<vault, persistPath, phase, history, saved, loads, serial>>

-----------------------------------------------------------------------------
(* The organize_note handler, await by await.  A folder path is the        *)
(* sequence of its segments; a final segment "" stands for a trailing "/". *)
(* The note to move is A.md at the root of the vault.  The host creates a  *)
(* folder or throws, and renames or throws.                                *)

FolderNames == {"a", "b"}

\* the folder paths of at most two segments
FolderPaths == { <<x>> : x \in FolderNames } \cup (FolderNames \X FolderNames)

\* the folders a vault may hold: with a folder, its parent
FolderSets ==
  { fs \in SUBSET FolderPaths :
      \A f \in fs : Len(f) = 2 => <<f[1]>> \in fs }

\* String(args.newFolderPath ?? '').trim() as the tool model may send it
TargetFolders ==
  {<<>>} \cup FolderPaths \cup { <<x, "">> : x \in FolderNames }

\* targetFolder.replace(/\/$/, '')
StripTrailingSlash(target) ==
  IF Len(target) > 0 /\ target[Len(target)] = ""
  THEN SubSeq(target, 1, Len(target) - 1)
  ELSE target

\* parts = targetPath.split('/'); parts.pop()
Parts(targetPath) == SubSeq(targetPath, 1, Len(targetPath) - 1)

OrganizerIdle == [pc |-> "idle"]

InitOrganize == organizer = OrganizerIdle

\* the handler is entered: destinationFolder and normalized are computed;
\* without a destination nothing is created and nothing renamed
OrganizeCall ==
  \E target \in TargetFolders, folders \in FolderSets, hasUpdates \in BOOLEAN :
    organizer =
      [pc |-> IF StripTrailingSlash(target) # <<>> THEN "ensureFolders"
              ELSE IF hasUpdates THEN "process" ELSE "rename",
       destination |-> StripTrailingSlash(target),
       normalized |-> StripTrailingSlash(target) \o <<"A.md">>,
       parts |-> Parts(StripTrailingSlash(target)),
       current |-> <<>>,
       hasUpdates |-> hasUpdates,
       folders |-> folders,
       created |-> {},
       renamedTo |-> <<>>,
       result |-> NoResult]

OrganizeFailed(o) ==
  [o EXCEPT !.pc = "returned",
            !.result = Failure("organize_note", <<"Unable to move or rename the note.">>)]

\* one iteration of the loop of ensureFolders: the segment is added to
\* current, and the folder created when the vault does not have it
EnsureFolder ==
  /\ organizer.pc = "ensureFolders" /\ Len(organizer.parts) > 0
  /\ LET current == Append(organizer.current, Head(organizer.parts))
         next == [organizer EXCEPT !.current = current, !.parts = Tail(@)]
     IN IF current \in organizer.folders
        THEN organizer' = next
        ELSE \E created \in BOOLEAN :
               organizer' =
                 IF created
                 THEN [next EXCEPT !.folders = @ \cup {current},
                                   !.created = @ \cup {current}]
                 ELSE OrganizeFailed(organizer)

\* ensureFolders returns
FoldersEnsured ==
  /\ organizer.pc = "ensureFolders" /\ Len(organizer.parts) = 0
  /\ organizer' = [organizer EXCEPT !.pc = IF organizer.hasUpdates THEN "process"
                                           ELSE "rename"]

\* await this.app.vault.process(file, ...)
NoteProcessed ==
  /\ organizer.pc = "process"
  /\ \E done \in BOOLEAN :
       organizer' = IF done THEN [organizer EXCEPT !.pc = "rename"]
                    ELSE OrganizeFailed(organizer)

\* if (normalized !== file.path) await this.app.fileManager.renameFile(...)
NoteRenamed ==
  /\ organizer.pc = "rename"
  /\ IF organizer.normalized = <<"A.md">>
     THEN organizer' =
            [organizer EXCEPT !.pc = "returned",
               !.result = Success("organize_note", <<"Note updated at ", "A.md", ".">>)]
     ELSE \E done \in BOOLEAN :
            organizer' =
              IF done
              THEN [organizer EXCEPT !.pc = "returned",
                      !.renamedTo = organizer.normalized,
                      !.result = Success("organize_note",
                                         <<"Note updated at ">> \o organizer.normalized \o <<".">>)]
              ELSE OrganizeFailed(organizer)

-----------------------------------------------------------------------------
(* Specifications *)

\* one run of the orchestrator
Init ==
  /\ InitRun /\ cite = CiteIdle /\ InitStore /\ persistPath # "" /\ chunker = ChunkerIdle
  /\ fusion = FusionIdle /\ InitRouter /\ InitEmbed /\ InitAsync /\ InitOrganize
Next ==
  \/ Retrieve /\ UNCHANGED <<citeVars, storeVars, chunkVars, searchVars, routerVars, embedVars, asyncVars, organizeVars>>
  \/ ToolRound /\ UNCHANGED <<citeVars, storeVars, chunkVars, searchVars, routerVars, embedVars, asyncVars, organizeVars>>
  \/ ExecTool /\ UNCHANGED <<citeVars, storeVars, chunkVars, searchVars, routerVars, embedVars, asyncVars, organizeVars>>
  \/ Respond /\ UNCHANGED <<citeVars, storeVars, chunkVars, searchVars, routerVars, embedVars, asyncVars, organizeVars>>
  \/ DeepResearch /\ UNCHANGED <<citeVars, storeVars, chunkVars, searchVars, routerVars, embedVars, asyncVars, organizeVars>>
Spec == Init /\ [][Next]_vars

\* applyCitations as a function
CiteInit ==
  /\ InitCite /\ InitRun /\ InitStore /\ persistPath # "" /\ chunker = ChunkerIdle
  /\ fusion = FusionIdle /\ InitRouter /\ InitEmbed /\ InitAsync /\ InitOrganize
CiteNext ==
  \/ ApplyOnce /\ UNCHANGED <<runVars, storeVars, chunkVars, searchVars, routerVars, embedVars, asyncVars, organizeVars>>
  \/ ApplyAgain /\ UNCHANGED <<runVars, storeVars, chunkVars, searchVars, routerVars, embedVars, asyncVars, organizeVars>>
CiteSpec == CiteInit /\ [][CiteNext]_vars

\* the index under vault events, one handler at a time
StoreInit ==
  /\ InitStore /\ InitRun /\ cite = CiteIdle /\ chunker = ChunkerIdle /\ fusion = FusionIdle
  /\ InitRouter /\ InitEmbed /\ InitAsync /\ InitOrganize
StoreNext ==
  \/ Load /\ UNCHANGED <<runVars, citeVars, chunkVars, searchVars, routerVars, embedVars, asyncVars, organizeVars>>
  \/ InitialIndex /\ UNCHANGED <<runVars, citeVars, chunkVars, searchVars, routerVars, embedVars, asyncVars, organizeVars>>
  \/ Rebuild /\ UNCHANGED <<runVars, citeVars, chunkVars, searchVars, routerVars, embedVars, asyncVars, organizeVars>>
  \/ Unload /\ UNCHANGED <<runVars, citeVars, chunkVars, searchVars, routerVars, embedVars, asyncVars, organizeVars>>
  \/ OfflineEdit /\ UNCHANGED <<runVars, citeVars, chunkVars, searchVars, routerVars, embedVars, asyncVars, organizeVars>>
  \/ SnapshotDamaged /\ UNCHANGED <<runVars, citeVars, chunkVars, searchVars, routerVars, embedVars, asyncVars, organizeVars>>
  \/ VaultCreate /\ UNCHANGED <<runVars, citeVars, chunkVars, searchVars, routerVars, embedVars, asyncVars, organizeVars>>
  \/ handleModify /\ UNCHANGED <<runVars, citeVars, chunkVars, searchVars, routerVars, embedVars, asyncVars, organizeVars>>
  \/ handleDelete /\ UNCHANGED <<runVars, citeVars, chunkVars, searchVars, routerVars, embedVars, asyncVars, organizeVars>>
  \/ handleRename /\ UNCHANGED <<runVars, citeVars, chunkVars, searchVars, routerVars, embedVars, asyncVars, organizeVars>>
StoreSpec == StoreInit /\ [][StoreNext]_vars

\* one call of chunkMarkdown
ChunkSpecInit ==
  /\ ChunkInit /\ InitRun /\ cite = CiteIdle /\ InitStore /\ persistPath # ""
  /\ fusion = FusionIdle /\ InitRouter /\ InitEmbed /\ InitAsync /\ InitOrganize
ChunkNext ==
  \/ NextSection /\ UNCHANGED <<runVars, citeVars, storeVars, searchVars, routerVars, embedVars, asyncVars, organizeVars>>
  \/ WindowStep /\ UNCHANGED <<runVars, citeVars, storeVars, searchVars, routerVars, embedVars, asyncVars, organizeVars>>
  \/ SectionDone /\ UNCHANGED <<runVars, citeVars, storeVars, searchVars, routerVars, embedVars, asyncVars, organizeVars>>
  \/ ChunkReturn /\ UNCHANGED <<runVars, citeVars, storeVars, searchVars, routerVars, embedVars, asyncVars, organizeVars>>
ChunkSpec == ChunkSpecInit /\ [][ChunkNext]_vars
\* chunkMarkdown is synchronous code: every statement that can run does
FairChunkSpec == ChunkSpecInit /\ [][ChunkNext]_vars /\ WF_vars(ChunkNext)

\* one call of search
FuseInit ==
  /\ InitFusion /\ InitRun /\ cite = CiteIdle /\ InitStore /\ persistPath # ""
  /\ chunker = ChunkerIdle /\ InitRouter /\ InitEmbed /\ InitAsync /\ InitOrganize
FuseNext ==
  \/ KeywordSearch /\ UNCHANGED <<runVars, citeVars, storeVars, chunkVars, routerVars, embedVars, asyncVars, organizeVars>>
  \/ VectorSearch /\ UNCHANGED <<runVars, citeVars, storeVars, chunkVars, routerVars, embedVars, asyncVars, organizeVars>>
  \/ Fuse /\ UNCHANGED <<runVars, citeVars, storeVars, chunkVars, routerVars, embedVars, asyncVars, organizeVars>>
FuseSpec == FuseInit /\ [][FuseNext]_vars

\* the router under calls of route that overlap in time; assistant calls touch
\* claudePromptCache only and research calls geminiCache only
RouterInit ==
  /\ InitRouter /\ InitRun /\ cite = CiteIdle /\ InitStore /\ persistPath # ""
  /\ chunker = ChunkerIdle /\ fusion = FusionIdle /\ InitEmbed /\ InitAsync /\ InitOrganize
AssistantNext ==
  \/ AssistantCall /\ UNCHANGED <<runVars, citeVars, storeVars, chunkVars, searchVars, embedVars, asyncVars, organizeVars>>
  \/ AssistantLookup /\ UNCHANGED <<runVars, citeVars, storeVars, chunkVars, searchVars, embedVars, asyncVars, organizeVars>>
  \/ AssistantCompletion /\ UNCHANGED <<runVars, citeVars, storeVars, chunkVars, searchVars, embedVars, asyncVars, organizeVars>>
AssistantSpec == RouterInit /\ [][AssistantNext]_vars
ResearchNext ==
  \/ ResearchCall /\ UNCHANGED <<runVars, citeVars, storeVars, chunkVars, searchVars, embedVars, asyncVars, organizeVars>>
  \/ ContextCacheLookup /\ UNCHANGED <<runVars, citeVars, storeVars, chunkVars, searchVars, embedVars, asyncVars, organizeVars>>
  \/ ContextCacheCreated /\ UNCHANGED <<runVars, citeVars, storeVars, chunkVars, searchVars, embedVars, asyncVars, organizeVars>>
  \/ GenerateContent /\ UNCHANGED <<runVars, citeVars, storeVars, chunkVars, searchVars, embedVars, asyncVars, organizeVars>>
  \/ ClockTick /\ UNCHANGED <<runVars, citeVars, storeVars, chunkVars, searchVars, embedVars, asyncVars, organizeVars>>
ResearchSpec == RouterInit /\ [][ResearchNext]_vars

\* calls of runAssistant and of ensureGeminiCache on one router, overlapping in
\* time: a deep-research call is followed to the end of ensureGeminiCache
RouterNext ==
  \/ AssistantNext
  \/ ResearchCall /\ UNCHANGED <<runVars, citeVars, storeVars, chunkVars, searchVars, embedVars, asyncVars, organizeVars>>
  \/ ContextCacheLookup /\ UNCHANGED <<runVars, citeVars, storeVars, chunkVars, searchVars, embedVars, asyncVars, organizeVars>>
  \/ ContextCacheCreated /\ UNCHANGED <<runVars, citeVars, storeVars, chunkVars, searchVars, embedVars, asyncVars, organizeVars>>
RouterSpec == RouterInit /\ [][RouterNext]_vars

\* calls of embed that overlap in time, on a phone or on a desktop
EmbedInit ==
  /\ isMobile \in BOOLEAN /\ InitEmbedder /\ InitRun /\ cite = CiteIdle /\ InitStore
  /\ persistPath # "" /\ chunker = ChunkerIdle /\ fusion = FusionIdle /\ InitRouter /\ InitAsync /\ InitOrganize
EmbedNext ==
  \/ EmbedCall /\ UNCHANGED <<runVars, citeVars, storeVars, chunkVars, searchVars, routerVars, asyncVars, organizeVars>>
  \/ EmbedBegin /\ UNCHANGED <<runVars, citeVars, storeVars, chunkVars, searchVars, routerVars, asyncVars, organizeVars>>
  \/ PipelineLoaded /\ UNCHANGED <<runVars, citeVars, storeVars, chunkVars, searchVars, routerVars, asyncVars, organizeVars>>
  \/ TransformerRun /\ UNCHANGED <<runVars, citeVars, storeVars, chunkVars, searchVars, routerVars, asyncVars, organizeVars>>
  \/ RemoteEmbedding /\ UNCHANGED <<runVars, citeVars, storeVars, chunkVars, searchVars, routerVars, asyncVars, organizeVars>>
EmbedSpec == EmbedInit /\ [][EmbedNext]_vars

\* the store under vault events, commands and searches that overlap in time
RaceInit ==
  /\ InitRace /\ InitRun /\ cite = CiteIdle /\ chunker = ChunkerIdle /\ fusion = FusionIdle
  /\ InitRouter /\ InitEmbed /\ InitOrganize
RaceNext ==
  \/ ModifyEvent /\ UNCHANGED <<runVars, citeVars, chunkVars, searchVars, routerVars, embedVars, organizeVars>>
  \/ DeleteEvent /\ UNCHANGED <<runVars, citeVars, chunkVars, searchVars, routerVars, embedVars, organizeVars>>
  \/ RebuildCommand /\ UNCHANGED <<runVars, citeVars, chunkVars, searchVars, routerVars, embedVars, organizeVars>>
  \/ SearchCall /\ UNCHANGED <<runVars, citeVars, chunkVars, searchVars, routerVars, embedVars, organizeVars>>
  \/ ImportSettled /\ UNCHANGED <<runVars, citeVars, chunkVars, searchVars, routerVars, embedVars, organizeVars>>
  \/ CreateSettled /\ UNCHANGED <<runVars, citeVars, chunkVars, searchVars, routerVars, embedVars, organizeVars>>
  \/ ReadSettled /\ UNCHANGED <<runVars, citeVars, chunkVars, searchVars, routerVars, embedVars, organizeVars>>
  \/ RemoveSettled /\ UNCHANGED <<runVars, citeVars, chunkVars, searchVars, routerVars, embedVars, organizeVars>>
  \/ InsertSettled /\ UNCHANGED <<runVars, citeVars, chunkVars, searchVars, routerVars, embedVars, organizeVars>>
  \/ WriteSettled /\ UNCHANGED <<runVars, citeVars, chunkVars, searchVars, routerVars, embedVars, organizeVars>>
RaceSpec == RaceInit /\ [][RaceNext]_vars

\* one call of the organize_note handler
OrganizeInit ==
  /\ OrganizeCall /\ InitRun /\ cite = CiteIdle /\ InitStore /\ persistPath # ""
  /\ chunker = ChunkerIdle /\ fusion = FusionIdle /\ InitRouter /\ InitEmbed /\ InitAsync
OrganizeNext ==
  \/ EnsureFolder /\ UNCHANGED <<runVars, citeVars, storeVars, chunkVars, searchVars, routerVars, embedVars, asyncVars>>
  \/ FoldersEnsured /\ UNCHANGED <<runVars, citeVars, storeVars, chunkVars, searchVars, routerVars, embedVars, asyncVars>>
  \/ NoteProcessed /\ UNCHANGED <<runVars, citeVars, storeVars, chunkVars, searchVars, routerVars, embedVars, asyncVars>>
  \/ NoteRenamed /\ UNCHANGED <<runVars, citeVars, storeVars, chunkVars, searchVars, routerVars, embedVars, asyncVars>>
OrganizeSpec == OrganizeInit /\ [][OrganizeNext]_vars

\* one run in which every awaited call (search, model request, tool)
\* settles: run is resumed whenever it can be
FairSpec == Init /\ [][Next]_vars /\ WF_vars(Next)

-----------------------------------------------------------------------------
(* Claims about Orchestrator.run *)

Settled == pc = "Done" /\ raised = "none"

\* C1: run always terminates: it issues at most maxSteps tool-capable
\* requests, after the maxSteps-th tool round it issues no further one and
\* is in Responding, and every run reaches Done.
C1_RunTerminates ==
  /\ [](sent.toolRequests <= maxSteps)
  /\ [](step <= maxSteps)
  /\ [](step = maxSteps => pc \in {"Responding", "DeepResearch", "Done"})
  /\ <>(pc = "Done")

\* a run in which all maxSteps tool responses held tool calls has finished
C1_Witness ==
  Settled /\ step = maxSteps /\ sent.toolRequests = maxSteps /\ sent.assistantRequests = 1

\* C2 as stated: when every tool response held tool calls, the text run
\* returns is non-empty, whatever the backends returned and whether or not
\* retrieval found results.
C2_ReturnedTextNonEmpty ==
  (Settled /\ step = maxSteps) => result # <<>>

\* C2 amended: when every tool response held tool calls, the text run returns
\* is empty exactly when retrieval found nothing and both the assistant and
\* the deep-research backend returned empty text.
C2_EmptyOnlyWhenAllEmpty ==
  (Settled /\ step = maxSteps) =>
    (result = <<>> <=>
       (searchResults = <<>> /\ reply.assistant = <<>> /\ reply.deep = <<>>))

\* both backends returned empty text and the retrieved results alone make
\* the returned text non-empty
C2_Witness ==
  /\ Settled /\ step = maxSteps
  /\ reply.assistant = <<>> /\ reply.deep = <<>> /\ sent.deepRequests = 1
  /\ searchResults # <<>> /\ result # <<>>

\* C4: a failing model-backend request never makes run end with an exception.
C4_BackendFailureNeverRaises == raised # "backend"

\* C5: every tool-role message carries a tool-call identifier that an
\* assistant message earlier in the conversation carries.
C5_ToolMessagesAnswerCalls ==
  \A i \in 1..Len(messages) :
    messages[i].role = "tool" =>
      \E j \in 1..(i - 1) :
        /\ messages[j].role = "assistant"
        /\ messages[j].tool_call_id = messages[i].tool_call_id

\* tool messages for two different call identifiers are in the conversation
C5_Witness ==
  \E i, k \in 1..Len(messages) :
    /\ messages[i].role = "tool" /\ messages[k].role = "tool"
    /\ messages[i].tool_call_id # messages[k].tool_call_id

\* a step that receives a tool response without tool calls
BreaksOnNoCalls ==
  (pc = "ToolRound" /\ raised' = "none" /\ toolDecision' = <<>>)
    => pc' = "Responding"

\* a step taken once the tool loop has been left
NoToolWorkAfterLoop ==
  pc \in {"Responding", "DeepResearch", "Done"}
    => (/\ pc' \in {"Responding", "DeepResearch", "Done"}
        /\ sent'.toolRequests = sent.toolRequests
        /\ sent'.toolsExecuted = sent.toolsExecuted)

\* C6: a tool response without tool calls moves run to Responding at once,
\* and from Responding on no tool is executed and no tool-capable request
\* is issued.
C6_NoCallsGoesToResponding ==
  [][BreaksOnNoCalls]_vars /\ [][NoToolWorkAfterLoop]_vars

\* the second tool response of a run held no tool calls and run has finished
C6_Witness ==
  Settled /\ step = 1 /\ sent.toolRequests = 2 /\ sent.toolsExecuted >= 1

\* C7: a non-empty assistant text ends the run with that text, citation
\* postprocessed, and deep research is never called; an empty one is
\* followed by exactly one deep-research request with the same context, and
\* run finishes on its postprocessed text, empty or not.
C7_RespondingFallback ==
  /\ sent.assistantRequests <= 1 /\ sent.deepRequests <= 1
  /\ reply.assistant # <<>> => sent.deepRequests = 0
  /\ pc = "DeepResearch" => (reply.assistant = <<>> /\ sent.assistantRequests = 1)
  /\ Settled =>
       IF reply.assistant # <<>>
       THEN result = applyCitations(reply.assistant, searchResults)
       ELSE /\ sent.deepRequests = 1
            /\ sent.deepContext = sent.assistantContext
            /\ sent.deepContext = contextText
            /\ result = applyCitations(reply.deep, searchResults)

\* run finished on an empty deep-research text after an empty assistant text
C7_Witness ==
  /\ Settled /\ reply.assistant = <<>> /\ reply.deep = <<>>
  /\ sent.deepRequests = 1 /\ result = <<>>

\* the failures of C10: unknown tool name, invalid or missing target,
\* disallowed or unknown command
FailingCall(call) ==
  \/ call.name \notin ToolNames
  \/ /\ call.name = "organize_note" /\ ~call.arguments.isNull
     /\ TrimmedString(call.arguments.filePath) \notin RunEnv(FALSE, <<>>).files
  \/ /\ call.name = "execute_command" /\ ~call.arguments.isNull
     /\ \/ TrimmedString(call.arguments.commandId) \notin RunEnv(FALSE, <<>>).commands
        \/ TrimmedString(call.arguments.commandId) \notin RunEnv(FALSE, <<>>).allowedCommands

\* a step that executes a failing tool call
FailureObserved ==
  (pc = "ExecTools" /\ FailingCall(Head(toolDecision)))
    => (/\ ~lastResult'.raised /\ ~lastResult'.success
        /\ raised' = "none"
        /\ Len(messages') >= Len(messages) + 2
        /\ SubSeq(messages', 1, Len(messages)) = messages
        /\ messages'[Len(messages) + 2] =
             Message("tool", Head(toolDecision).name, lastResult'.output,
                     Head(toolDecision).id)
        /\ pc' = (IF Len(toolDecision) > 1 THEN "ExecTools"
                  ELSE IF step + 1 < maxSteps THEN "ToolRound" ELSE "Responding")
        /\ step' = (IF Len(toolDecision) > 1 THEN step ELSE step + 1))

\* C10: a failing tool call yields a result with success = false and does not
\* raise; its output is appended as the tool message of that call and the
\* loop goes on (next call, next round, or Responding at the step ceiling).
C10_ToolFailureIsObservation == [][FailureObserved]_vars

\* a failed tool call was observed and the next tool round is under way
C10_Witness ==
  /\ pc = "ToolRound" /\ step >= 1
  /\ ~lastResult.raised /\ ~lastResult.success /\ lastResult.name = "organize_note"
  /\ \E i \in 1..Len(messages) :
       messages[i].role = "tool" /\ messages[i].content = lastResult.output

\* what the tool rounds have left in the conversation after the two opening
\* messages, the assistant messages aside: the call identifier of each tool
\* message and "continue" for each continue message
Observations ==
  LET kept == SelectSeq(SubSeq(messages, 3, Len(messages)),
                        LAMBDA m : m.role # "assistant")
  IN [i \in 1..Len(kept) |->
        IF kept[i].role = "tool" THEN kept[i].tool_call_id
        ELSE IF kept[i] = ContinueMessage THEN "continue" ELSE "other"]

\* what the rounds are to leave: the identifiers of each round in the order
\* of its response, then one "continue"
RECURSIVE Expected(_)
Expected(rounds) ==
  IF rounds = <<>> THEN <<>>
  ELSE Head(rounds) \o <<"continue">> \o Expected(Tail(rounds))

\* C30: in a tool round whose response holds k >= 1 calls the tools are
\* executed one at a time in the order of the response, k tool messages are
\* appended in that order, each with the identifier of its call, and one
\* continue message is appended after all of them: while a round is under way
\* the conversation holds the results of the calls executed so far and the
\* calls still to execute are the rest of the response, and once run is past
\* the round the conversation holds all k results and the continue message.
C30_RoundAppendsResultsInOrder ==
  LET expected == Expected(sent.rounds)
      seen == Observations
      pending == [i \in 1..Len(toolDecision) |-> toolDecision[i].id]
  IN /\ sent.toolsExecuted = Cardinality({i \in 1..Len(seen) : seen[i] # "continue"})
     /\ IF pc = "ExecTools"
        THEN seen \o pending \o <<"continue">> = expected
        ELSE seen = expected

\* no model request has been issued
NoModelRequest ==
  sent.toolRequests = 0 /\ sent.assistantRequests = 0 /\ sent.deepRequests = 0

\* the context given to the models and the list the citations are taken
\* from are those of run's retrieval
FromRunsRetrieval ==
  /\ pc # "Retrieving"
       => /\ contextText = buildContext(searchResults)
          /\ messages[2] = UserMessage(buildContext(searchResults))
  /\ sent.assistantContext \in {<<"unset">>, contextText}
  /\ sent.deepContext \in {<<"unset">>, contextText}
  /\ Settled
       => result = applyCitations(IF reply.assistant # <<>> THEN reply.assistant
                                                             ELSE reply.deep,
                                  searchResults)

\* a step after the retrieval leaves its results and the context alone
RetrievalKept ==
  pc # "Retrieving" => UNCHANGED <<searchResults, contextText>>

\* C31 as stated: within one run the retriever is queried exactly once,
\* before any model request, and the context text and the result list used
\* for the citations are the ones of that retrieval.
C31_RetrieverQueriedOnce ==
  /\ [](sent.searches + sent.toolSearches = (IF pc = "Retrieving" THEN 0 ELSE 1))
  /\ [](pc = "Retrieving" => NoModelRequest)
  /\ []FromRunsRetrieval
  /\ [][RetrievalKept]_vars

\* C31: run itself queries the retriever exactly once, before any model
\* request (a notes tool call executed during the run queries it again, and
\* only then), and the context text and the result list used for the
\* citations are the ones of run's own retrieval, whatever the later queries
\* of the tools return.
C31_RunQueriesRetrieverOnce ==
  /\ [](sent.searches = (IF pc = "Retrieving" THEN 0 ELSE 1))
  /\ [](pc = "Retrieving" => (NoModelRequest /\ sent.toolSearches = 0))
  /\ [](sent.toolSearches <= sent.toolsExecuted)
  /\ []FromRunsRetrieval
  /\ [][RetrievalKept]_vars

\* run retrieved nothing, a notes call executed later found a chunk, and the
\* run returned the assistant's text without a Sources line
C31_Witness ==
  /\ Settled /\ searchResults = <<>> /\ sent.toolSearches >= 1
  /\ \E i \in 1..Len(messages) :
       /\ messages[i].role = "tool" /\ messages[i].name = "notes"
       /\ messages[i].content # <<"No matching notes found.">>
  /\ reply.assistant # <<>> /\ result = reply.assistant

\* a step keeps every message it found, at its position
Appends ==
  /\ Len(messages') >= Len(messages)
  /\ SubSeq(messages', 1, Len(messages)) = messages

\* C32: the conversation of a run only grows: every step appends at the end
\* and leaves the earlier messages as they are, and once the conversation
\* exists its first two messages are the system message and the user message.
C32_ConversationOnlyGrows ==
  /\ [][Appends]_vars
  /\ [](pc # "Retrieving"
          => /\ Len(messages) >= 2
             /\ messages[1] = SystemMessage
             /\ messages[2].role = "user" /\ messages[2].tool_call_id = ""
             /\ messages[2] # ContinueMessage)

\* two tool rounds have been appended to the conversation and run has finished
C32_Witness ==
  /\ Settled /\ step = 2 /\ Len(messages) >= 8
  /\ messages[Len(messages)] = ContinueMessage

\* the call the backend sent as the i-th of the calls still to execute
Sent(i) == sent.received[sent.toolsExecuted + i]

\* every call still to execute whose payload JSON.parse rejected is reported
\* with its name, its identifier and the empty argument object
MalformedReported ==
  (pc = "ExecTools" /\ raised = "none")
    => \A i \in 1..Len(toolDecision) :
         Sent(i).arguments \in BadPayloads
           => toolDecision[i] = [name |-> Sent(i).name, arguments |-> NoArgs,
                                 id |-> Sent(i).id]

\* a step that receives a response holding a call with such a payload
MalformedReceived ==
  (\E i \in (Len(sent.received) + 1)..Len(sent'.received) :
      sent'.received[i].arguments \in BadPayloads)
    => raised' = "none" /\ pc' = "ExecTools"

\* a step that executes a call with such a payload
MalformedExecuted ==
  (pc = "ExecTools" /\ Sent(1).arguments \in BadPayloads)
    => /\ sent'.toolsExecuted = sent.toolsExecuted + 1
       /\ lastResult'.name = Sent(1).name /\ ~lastResult'.raised
       /\ raised' = "none"
       /\ lastResult' = runTool(Sent(1).name, NoArgs, RunEnv(FALSE, <<>>))
       /\ messages'[Len(messages) + 2] =
            Message("tool", Sent(1).name, lastResult'.output, Sent(1).id)

\* C33: a tool call whose argument payload is not parseable JSON is passed
\* on with an empty argument object: it is reported with its name and its
\* identifier, the tool is executed with the empty object, and neither
\* runToolCall nor run raises.
C33_MalformedArgumentsPassedOn ==
  /\ []MalformedReported
  /\ [][MalformedReceived]_vars
  /\ [][MalformedExecuted]_vars

\* the notes tool was executed for a call with an unparseable payload and
\* run finished
C33_Witness ==
  /\ Settled
  /\ \E i \in 1..Len(sent.received) :
       /\ sent.received[i].arguments \in BadPayloads
       /\ sent.received[i].name = "notes"
       /\ i <= sent.toolsExecuted
  /\ \E i \in 1..Len(messages) :
       /\ messages[i].role = "tool"
       /\ messages[i].content = <<"Provide a query to search notes.">>

\* the handler got as far as commandsApi.executeCommandById: it reports the
\* execution, or the exception the host raised in it
Invoked(res) ==
  /\ res.name = "execute_command" /\ ~res.raised
  /\ \/ res.success
     \/ res.output = <<"Command execution failed.">>

\* the hosts the handler may meet: any non-empty allowlist, with or without
\* an active editor, executing or throwing
AllowlistHosts ==
  { [RunEnv(hostThrows, <<>>) EXCEPT !.allowedCommands = allowed,
                                     !.activeView = activeView] :
      hostThrows \in BOOLEAN, activeView \in BOOLEAN,
      allowed \in (SUBSET {"cmd_ok", "cmd_forbidden", "cmd_unknown"}) \ {{}} }

\* for every such host and every argument object with an identifier that is
\* not on the allowlist the handler returns a failure and does not invoke
\* the host
RefusedByHandler ==
  \A env \in AllowlistHosts, payload \in JsonPayloads :
    LET args == ParseJson(payload)
        res == executeCommandHandler(args, env)
    IN (~args.isNull /\ TrimmedString(args.commandId) \notin env.allowedCommands)
         => ~res.raised /\ ~res.success /\ ~Invoked(res)

\* a step of run that executes a call of execute_command whose identifier is
\* not on the allowlist
RefusedInRun ==
  (/\ pc = "ExecTools" /\ Head(toolDecision).name = "execute_command"
   /\ ~Head(toolDecision).arguments.isNull
   /\ TrimmedString(Head(toolDecision).arguments.commandId)
        \notin RunEnv(FALSE, <<>>).allowedCommands)
    => /\ ~lastResult'.raised /\ ~lastResult'.success /\ ~Invoked(lastResult')
       /\ lastResult'.name = "execute_command"
       /\ raised' = "none"

\* C36: with a non-empty allowlist, a command whose identifier is not on the
\* allowlist is never executed: the tool returns a failure result and the
\* host's executeCommandById is not invoked for it.
C36_AllowlistEnforced ==
  /\ []RefusedByHandler
  /\ [][RefusedInRun]_vars

\* run was told that the command it asked for is not allowlisted
C36_Witness ==
  /\ pc # "ExecTools" /\ raised = "none"
  /\ \E i \in 1..Len(messages) :
       /\ messages[i].role = "tool" /\ messages[i].name = "execute_command"
       /\ messages[i].content = <<"This command is not allowlisted for automation.">>

-----------------------------------------------------------------------------
(* Claims about the organize_note handler *)

\* C37: when organize_note is given a destination folder, every segment of
\* the folder path, the last one (the destination folder itself) included,
\* is a folder of the vault by the time the rename is issued.
C37_FoldersCreatedBeforeRename ==
  (organizer.pc = "rename" /\ organizer.destination # <<>>)
    => \A k \in 1..Len(organizer.destination) :
         SubSeq(organizer.destination, 1, k) \in organizer.folders

-----------------------------------------------------------------------------
(* Claims about applyCitations *)

\* C8: a text that contains "[[" is returned unchanged for every result
\* list, and applying the postprocessing twice gives what applying it once
\* gives.
C8_CitationIdempotence ==
  /\ (cite.phase \in {"once", "twice"} /\ IncludesOpenBrackets(cite.text))
       => cite.once = cite.text
  /\ cite.phase = "twice" => cite.twice = cite.once

\* a text with a marker went through the postprocessing twice, with results
C8_Witness ==
  cite.phase = "twice" /\ IncludesOpenBrackets(cite.text) /\ Len(cite.results) > 0

\* the citation markers of the first k results, separated by blanks
RECURSIVE SourcesListing(_, _)
SourcesListing(results, k) ==
  IF k = 0 THEN <<>>
  ELSE IF k = 1 THEN CitationMarker(results[1])
  ELSE SourcesListing(results, k - 1) \o <<" ">> \o CitationMarker(results[k])

WithSources(text, results) ==
  text \o <<"\n", "\n", "Sources: ">>
       \o SourcesListing(results, Min(MaxCitations, Len(results)))

\* C9 as stated: a text without a marker gets a "Sources:" line with the
\* first min(5, n) of the n results, in order, the text kept as a prefix.
C9_SourcesAppended ==
  (cite.phase \in {"once", "twice"} /\ ~IncludesOpenBrackets(cite.text))
    => cite.once = WithSources(cite.text, cite.results)

\* C9 amended: the same when n >= 1; with no result the text is returned
\* unchanged.
C9_SourcesAppendedWhenResults ==
  (cite.phase \in {"once", "twice"} /\ ~IncludesOpenBrackets(cite.text))
    => cite.once = IF Len(cite.results) = 0 THEN cite.text
                   ELSE WithSources(cite.text, cite.results)

\* a text without a marker was postprocessed with more than five results
C9_Witness ==
  /\ cite.phase = "once" /\ ~IncludesOpenBrackets(cite.text)
  /\ Len(cite.results) > MaxCitations
  /\ cite.once # cite.text

-----------------------------------------------------------------------------
(* Claims about the index *)

\* C3: every identifier listed in a binding is in the chunk store and every
\* chunk of the store is listed in exactly one binding.
C3_BindingInvariant ==
  /\ \A p \in DOMAIN bindings : Range(bindings[p]) \subseteq DOMAIN cachedChunks
  /\ \A id \in DOMAIN cachedChunks :
       Cardinality({ p \in DOMAIN bindings : id \in Range(bindings[p]) }) = 1

\* C11: after indexFile(doc) followed by removeFile(doc.path) the binding
\* table has no entry for doc.path and the chunk store holds no chunk whose
\* path is doc.path, whatever else is indexed.
C11_RemovedAfterIndexed ==
  \A p \in Paths :
    (/\ Len(history) = 2
     /\ history[1].op = "indexFile" /\ history[1].path = p
     /\ history[2] = Operation("removeFile", p, ""))
    => /\ p \notin DOMAIN bindings
       /\ \A id \in DOMAIN cachedChunks : cachedChunks[id].filePath # p

\* a step in which renameFile(oldPath, newPath) runs on a bound oldPath
RenameMoves ==
  \A oldPath, newPath \in Paths :
    (/\ phase = "ready" /\ oldPath # newPath
     /\ vault[oldPath] # "absent" /\ vault[newPath] = "absent"
     /\ vault'[oldPath] = "absent" /\ vault'[newPath] = vault[oldPath]
     /\ oldPath \in DOMAIN bindings)
    => /\ oldPath \notin DOMAIN bindings'
       /\ newPath \in DOMAIN bindings'
       /\ bindings'[newPath] = bindings[oldPath]
       /\ \A id \in Range(bindings[oldPath]) \cap DOMAIN cachedChunks :
            /\ id \in DOMAIN cachedChunks'
            /\ cachedChunks'[id] = [cachedChunks[id] EXCEPT !.filePath = newPath]

\* C12: renameFile(oldPath, newPath) on a document that owns k bound chunks
\* leaves no binding for oldPath, makes newPath own the same k identifiers
\* in the same order, and sets the path field of each of those chunks to
\* newPath.
C12_RenameMovesBinding == [][RenameMoves]_vars

\* a document with three bound chunks has just been renamed
C12_Witness ==
  \E oldPath, newPath \in Paths :
    /\ Len(history) > 0
    /\ history[Len(history)] = Operation("renameFile", oldPath, newPath)
    /\ oldPath \notin DOMAIN bindings /\ newPath \in DOMAIN bindings
    /\ Len(bindings[newPath]) = 3
    /\ \A i \in 1..3 :
         /\ bindings[newPath][i][1] = oldPath
         /\ bindings[newPath][i] \in DOMAIN cachedChunks
         /\ cachedChunks[bindings[newPath][i]].filePath = newPath

\* C13: restoring, into a fresh index, the snapshot persistIndex wrote from a
\* non-empty index yields the binding table and the chunk store that were
\* saved.
C13_RestoreOfSave ==
  (/\ phase = "restored"
   /\ saved.kind = "index"
   /\ snapshot = Serialized(saved)
   /\ (saved.bindings # EmptyMap \/ saved.cachedChunks # EmptyMap))
  => /\ bindings = saved.bindings
     /\ cachedChunks = saved.cachedChunks

\* a snapshot with two bindings, one of them moved by a rename, was restored
C13_Witness ==
  /\ phase = "restored" /\ saved.kind = "index" /\ snapshot = Serialized(saved)
  /\ Cardinality(DOMAIN saved.bindings) = 2
  /\ Cardinality(DOMAIN cachedChunks) >= 2
  /\ \E id \in DOMAIN cachedChunks : cachedChunks[id].filePath # id[1]

\* C14: when the snapshot is missing, unparseable, or parseable without a
\* chunk list, restoreIndex leaves the index empty: no binding, no chunk.
C14_UnrestorableLeavesEmpty ==
  (/\ phase = "restored"
   /\ \/ snapshot \in {NoFile, Unparseable}
      \/ (snapshot.kind = "json" /\ "chunks" \notin DOMAIN snapshot))
  => /\ bindings = EmptyMap
     /\ cachedChunks = EmptyMap

\* C15: with persistence enabled, after every completed indexFile,
\* removeFile, renameFile and indexVault, run one at a time, the snapshot
\* is exactly the binding table and chunk store held in memory.
C15_SnapshotIsCurrent ==
  (phase = "ready" /\ persistPath # "" /\ Len(history) > 0)
    => snapshot = Serialized(Index)

\* a rename of a bound document has completed with persistence enabled
C15_Witness ==
  /\ phase = "ready" /\ persistPath # "" /\ Len(history) > 0
  /\ history[Len(history)].op = "renameFile"
  /\ history[Len(history)].arg \in DOMAIN bindings
  /\ cachedChunks # EmptyMap
  /\ snapshot = Serialized(Index)

\* a step in which indexFile runs on the document and text it last ran on
ReindexKeeps ==
  \A p \in Paths :
    (/\ phase = "ready" /\ phase' = "ready"
     /\ Len(history) > 0
     /\ history[Len(history)] = Operation("indexFile", p, vault[p])
     /\ vault' = vault
     /\ history' = Push(history, Operation("indexFile", p, vault[p])))
    => /\ bindings' = bindings
       /\ cachedChunks' = cachedChunks

\* C16: calling indexFile twice on the same document text and path leaves
\* the binding table and the chunk store as they were after the first call.
C16_IndexFileIdempotent == [][ReindexKeeps]_vars

\* indexFile ran twice in a row on a document of three chunks
C16_Witness ==
  \E p \in Paths :
    /\ history = << Operation("indexFile", p, "plain"), Operation("indexFile", p, "plain") >>
    /\ Len(bindings[p]) = 3
    /\ Range(bindings[p]) \subseteq DOMAIN cachedChunks

\* initialize() has just completed: restoreIndex, then indexVault
JustInitialized ==
  phase = "ready" /\ history = <<Operation("indexVault", "", "")>>
\* C40: after initialize() completes, every path that has a binding is a
\* document of the vault, and so is the path of every chunk: nothing restored
\* from the snapshot for a document that no longer exists is left in the index.
C40_InitializeDropsStaleEntries ==
  JustInitialized
  => /\ \A p \in DOMAIN bindings : vault[p] # "absent"
     /\ \A id \in DOMAIN cachedChunks : vault[cachedChunks[id].filePath] # "absent"

-----------------------------------------------------------------------------
(* Claims about chunkMarkdown *)

\* an iteration of the while loop
CursorAdvances ==
  (chunker.pc = "window" /\ chunker'.pc = "window")
    => chunker'.cursor >= chunker.cursor + 1

\* C17: for every chunk target and overlap, overlap >= target included, the
\* window cursor advances by at least one token per iteration and chunking
\* terminates.
C17_ChunkingTerminates ==
  [][CursorAdvances]_vars /\ <>(chunker.pc = "returned")

\* with overlap >= target and the cap not reached, a section of three tokens
\* was chunked and the call returned
C17_Witness ==
  /\ chunker.pc = "returned"
  /\ chunker.options.chunkOverlap >= chunker.options.chunkSize
  /\ chunker.options.chunkSize >= 1
  /\ Len(chunker.chunks) = 3
  /\ Len(chunker.chunks) < chunker.options.maxChunks

\* a step taken once the file has maxChunks chunks
CapStops ==
  (chunker.pc # "idle" /\ Len(chunker.chunks) >= chunker.options.maxChunks)
    => chunker'.chunks = chunker.chunks

\* C18: chunking one document never yields more than maxChunksPerFile
\* chunks: once the cap is reached no chunk is made from the remaining
\* tokens of the current section or from any later section.
C18_ChunkCap ==
  /\ [](chunker.pc # "idle" => Len(chunker.chunks) <= chunker.options.maxChunks)
  /\ [][CapStops]_vars

\* the cap is reached with tokens left in the current section and a later
\* section still to come
C18_Witness ==
  /\ chunker.pc = "window"
  /\ chunker.options.maxChunks >= 1
  /\ Len(chunker.chunks) = chunker.options.maxChunks
  /\ chunker.cursor < Len(chunker.tokens)
  /\ Len(chunker.sections) > 1

\* a step of a section whose body has no token
NoTokensNoChunk ==
  (chunker.pc = "window" /\ Len(chunker.tokens) = 0)
    => chunker'.chunks = chunker.chunks

\* C34: no chunk with empty content is made: a section whose body holds no
\* token yields no chunk, and every chunk of the list chunkMarkdown builds
\* (the list indexFile stores) has at least one token of content.
C34_NoEmptyChunk ==
  /\ [][NoTokensNoChunk]_vars
  /\ [](chunker.pc # "idle"
          => \A i \in 1..Len(chunker.chunks) :
               Len(tokenize(chunker.chunks[i].content)) >= 1)

-----------------------------------------------------------------------------
(* Claims about search *)

\* two search results stand for the same chunk
SameChunk(a, b) ==
  a.filePath = b.filePath /\ a.blockId = b.blockId /\ a.content = b.content

\* C19: for two non-empty candidate lists with non-negative scores, every
\* fused score lies in [0, keywordWeight + vectorWeight], and a chunk
\* present in both lists has a fused score at least as large as either of
\* its weighted scores alone.
C19_FusedScoreBounds ==
  (fusion.phase = "fused" /\ Len(fusion.bm25Results) > 0 /\ Len(fusion.vectorResults) > 0)
  => \A i \in DOMAIN fusion.results :
       /\ fusion.results[i].score >= 0
       /\ fusion.results[i].score
            <= (KeywordWeight + VectorWeight)
                 * ScoreScale(fusion.bm25Results, fusion.vectorResults)
       /\ \A a \in DOMAIN fusion.bm25Results, b \in DOMAIN fusion.vectorResults :
            (/\ SameChunk(fusion.results[i], fusion.bm25Results[a])
             /\ SameChunk(fusion.results[i], fusion.vectorResults[b]))
            => /\ fusion.results[i].score
                    >= KeywordPart(fusion.bm25Results[a], fusion.bm25Results, fusion.vectorResults)
               /\ fusion.results[i].score
                    >= VectorPart(fusion.vectorResults[b], fusion.bm25Results, fusion.vectorResults)

\* the candidates of both lists, and the fused score of a chunk when
\* candidates are merged exactly when they are the same chunk
AllCandidates == Range(fusion.bm25Results) \cup Range(fusion.vectorResults)
ScoreByChunk(r) ==
  LET keyword == { c \in Range(fusion.bm25Results) : SameChunk(c, r) }
      vector == { c \in Range(fusion.vectorResults) : SameChunk(c, r) }
  IN (IF keyword = {} THEN 0
      ELSE KeywordPart(CHOOSE c \in keyword : TRUE, fusion.bm25Results, fusion.vectorResults))
     + (IF vector = {} THEN 0
        ELSE VectorPart(CHOOSE c \in vector : TRUE, fusion.bm25Results, fusion.vectorResults))

\* C20: search merges the keyword and vector candidates by chunk (two
\* candidates are combined exactly when they are the same chunk, their
\* weighted scores are then summed), returns each chunk at most once, sorted
\* by fused score descending, and returns at most limit results.
C20_MergedByChunk ==
  fusion.phase = "fused"
  => LET results == fusion.results
     IN /\ Len(results) <= fusion.limit
        /\ \A i, j \in DOMAIN results : i < j => results[i].score >= results[j].score
        /\ \A i, j \in DOMAIN results : i # j => ~SameChunk(results[i], results[j])
        /\ \A i \in DOMAIN results :
             /\ \E c \in AllCandidates : SameChunk(c, results[i])
             /\ results[i].score = ScoreByChunk(results[i])
        /\ \A c \in AllCandidates :
             (\A i \in DOMAIN results : ~SameChunk(c, results[i]))
             => /\ Len(results) = fusion.limit
                /\ ScoreByChunk(c) <= results[Len(results)].score

\* the query shares no token with any chunk: every chunk has keyword score
\* 0 and similarity 0
NothingInCommon ==
  \A i \in DOMAIN fusion.chunks :
    /\ fusion.keywordScore[fusion.chunks[i].content] = 0
    /\ fusion.vectorScore[fusion.chunks[i].content] = 0

-----------------------------------------------------------------------------
(* Claims about retrieval that finds nothing *)

Placeholder == <<"No matching notes found.">>

\* C21: when the index is empty, so that search returns the empty list, the
\* context text run supplies with its model requests is the literal
\* placeholder "No matching notes found." and not the empty string: in the
\* user message of the conversation and in the context argument of the
\* assistant and deep-research requests.
C21_PlaceholderSupplied ==
  (searchResults = <<>> /\ pc # "Retrieving")
  => /\ messages[2].content = Query \o <<"\n", "\n", "Context:", "\n">> \o Placeholder
     /\ sent.assistantRequests > 0 => sent.assistantContext = Placeholder
     /\ sent.deepRequests > 0 => sent.deepContext = Placeholder

-----------------------------------------------------------------------------
(* Claims about the caches of the model router *)

\* C22: a context-cache entry is handed to a later deep-research call with
\* the same context text only while the entry's age is within the configured
\* time-to-live; past that age the entry is not returned (the call uploads
\* the context again and a new entry is created).
C22_ReusedWithinTtl ==
  \A i \in DOMAIN calls :
    (calls[i].task = "research" /\ calls[i].source = "cache")
      => calls[i].reusedAge <= geminiContextCacheTtlMs


\* call i began after call j had returned a backend or cached response
LaterThan(i, j) ==
  j \in calls[i].after /\ calls[j].pc = "returned" /\ calls[j].source \in {"backend", "cache"}

\* C23: the assistant prompt cache is keyed by the full request: a request
\* identical to an earlier successful one is answered without a backend
\* call, and a call answered from the cache gets the response to a request
\* with its own messages, context and model, never the response to a request
\* that differs in one of them.
C23_KeyedByFullRequest ==
  \A i \in DOMAIN calls :
    calls[i].task = "assistant" =>
      /\ \A j \in DOMAIN calls :
           (LaterThan(i, j) /\ Asked(calls[i]) = Asked(calls[j])
              /\ calls[i].pc # "getApiKey")
           => calls[i].backendCalls = 0 /\ calls[i].source \in {"cache", "missing key"}
      /\ calls[i].source = "cache" => calls[i].response.askedWith = Asked(calls[i])


\* calls i and j of route('assistant') carried the same request, overlapped in
\* time, both missed the cache and called the backend, and had settled when
\* call k, with the same request, began
BothMissedBefore(i, j, k) ==
  /\ i < j /\ i \notin calls[j].after
  /\ calls[i].task = "assistant"
  /\ Asked(calls[i]) = Asked(calls[j]) /\ Asked(calls[j]) = Asked(calls[k])
  /\ calls[i].backendCalls = 1 /\ calls[j].backendCalls = 1
  /\ {i, j} \subseteq calls[k].after
Digest(c) == digestText(PromptText(c.messages, c.context))
DegradedReturn(i) ==
  /\ calls[i].task = "assistant" /\ calls[i].pc = "getApiKey"
  /\ calls'[i].source = "missing key"
\* the upload of a call of ensureGeminiCache fails in this step
CreationFails(i) ==
  /\ calls[i].task = "research" /\ calls[i].pc = "fetch"
  /\ calls'[i].pc # "fetch" /\ calls'[i].source # "backend"
\* call i has come back without a key, or from an upload that failed
Degraded(i) ==
  \/ calls[i].task = "assistant" /\ calls[i].source = "missing key"
  \/ /\ calls[i].task = "research" /\ calls[i].context # <<>>
     /\ calls[i].pc \notin {"getApiKey", "fetch"} /\ calls[i].source = "none"
\* call k began after call i, is the same request and found a key
LaterIdentical(i, k) ==
  /\ i \in calls[k].after /\ calls[i].task = calls[k].task
  /\ calls[k].pc # "getApiKey" /\ calls[k].source # "missing key"
  /\ IF calls[k].task = "assistant" THEN Digest(calls[i]) = Digest(calls[k])
     ELSE calls[i].context = calls[k].context
\* call k sent its request to the service
ReachedBackend(k) ==
  IF calls[k].task = "assistant" THEN calls[k].backendCalls = 1
  ELSE calls[k].pc = "fetch" \/ calls[k].source \in {"backend", "none"}
\* call k was answered from what another call of the same request got from
\* the service
AnsweredFromBackendOf(j, k) ==
  /\ j # k /\ calls[j].task = calls[k].task
  /\ calls[j].source = "backend" /\ calls[k].source = "cache"
  /\ IF calls[k].task = "assistant"
     THEN Digest(calls[j]) = Digest(calls[k]) /\ calls[k].response = calls[j].response
     ELSE calls[j].context = calls[k].context /\ calls[k].cacheEntry = calls[j].cacheEntry
-----------------------------------------------------------------------------
(* Claims about the embedder *)

Failed(c) == \A k \in DOMAIN c.tried : c.tried[k][2] # "vector"
\* C24: embed never fails its caller and every call that has settled returned
\* a vector; each backend that failed (no credential, network error, status
\* not ok, load or inference error) was passed over for the next one, and a
\* call whose backends all failed returned the token-frequency vector of the
\* trimmed text.
C24_EmbedAlwaysReturns ==
  \A i \in DOMAIN embedCalls :
    LET c == embedCalls[i] IN
      /\ c.pc # "rejected"
      /\ c.pc = "returned" =>
           /\ c.result \notin {NoVector, EmbedError}
           /\ c.source \in {"empty", "local", "remote", "fallback"}
           /\ (c.tried # <<>> /\ c.tried[Len(c.tried)][1] = "remote")
                => c.result = simpleFrequencyEmbedding(Trim(c.text))
           /\ c.source = "remote" => c.result = RemoteVector /\ Failed(c)
\* a desktop call whose pipeline load failed and whose fetch was rejected
\* returned the frequency vector of "b a!B": a once, b twice
C24_Witness ==
  \E i \in DOMAIN embedCalls :
    /\ embedCalls[i].pc = "returned"
    /\ embedCalls[i].tried = << <<"local", "load_error">>, <<"remote", "network_error">> >>
    /\ embedCalls[i].result = Vector(<<1, 2>>, 5)

\* C35: a call of embed on a text without tokens (empty, blank or
\* punctuation only) that no backend answered returns the zero vector of
\* length 1.
C35_NoTokensGivesZeroVector ==
  \A i \in DOMAIN embedCalls :
    LET c == embedCalls[i] IN
      (/\ c.pc = "returned" /\ c.source \in {"empty", "fallback"}
       /\ tokenizeText(c.text) = <<>>)
      => c.result.values = <<0>>


-----------------------------------------------------------------------------
(* Claims about handlers of the store that overlap in time *)

AllSettled == InFlight = {} /\ writeQueue = <<>>
ChunksOf(store, p) == { id \in DOMAIN store : store[id].filePath = p }
\* C25: when the delete of a document was handled while an indexFile of the
\* same document, begun by an earlier modify event, was in flight, then once
\* both have settled there is no binding for the document and no chunk of it.
C25_DeleteWinsOverIndexFile ==
  \A i, j \in DOMAIN handlers :
    (/\ handlers[i].op = "indexFile" /\ handlers[j].op = "removeFile"
     /\ handlers[i].path = handlers[j].path
     /\ i \in handlers[j].during
     /\ AllSettled)
    => /\ handlers[j].path \notin DOMAIN bindings
       /\ ChunksOf(cachedChunks, handlers[j].path) = {}
       /\ db # NoDatabase => ChunksOf(db, handlers[j].path) = {}


Bound(p) == IF p \in DOMAIN bindings THEN Range(bindings[p]) ELSE {}
\* C26: when two indexFile calls for one document that read different texts
\* overlapped in time, then once the handlers have settled the chunks of the
\* document in the chunk store are exactly those its binding lists.
C26_ConcurrentIndexFileKeepsBinding ==
  \A i, j \in DOMAIN handlers :
    (/\ handlers[i].op = "indexFile" /\ handlers[j].op = "indexFile"
     /\ handlers[i].path = handlers[j].path
     /\ i \in handlers[j].during
     /\ handlers[i].content # handlers[j].content
     /\ AllSettled)
    => /\ ChunksOf(cachedChunks, handlers[j].path) = Bound(handlers[j].path)
       /\ db # NoDatabase => ChunksOf(db, handlers[j].path) = Bound(handlers[j].path)


\* C27: the backend is chosen once: every caller to which ensureDatabase has
\* returned found db set, whether it began the choice or arrived while
\* another caller's choice was under way, and db is assigned by one caller
\* at most.
C27_BackendChosenOnce ==
  /\ \A i \in DOMAIN handlers : handlers[i].dbAtReturn # "null"
  /\ Cardinality({ i \in DOMAIN handlers : handlers[i].assigned }) <= 1


EndedInPersist(h) ==
  h.op # "search" /\ (h.pc = "returned" \/ (h.pc = "rejected" /\ h.failedIn = "persistIndex"))
\* C28: once handlers that change the index, each of which went as far as its
\* persistIndex, have all settled, the snapshot file holds the binding table
\* and the chunk store as they are in memory, which is the snapshot the same
\* events would have left had each been handled before the next.
C28_SnapshotMatchesMemory ==
  (/\ handlers # <<>>
   /\ AllSettled
   /\ \A i \in DOMAIN handlers : EndedInPersist(handlers[i]))
  => /\ snapshot = Serialized(Index)
     /\ snapshot = Serialized(serial)
====
